---- MODULE Spec2Model ----
(***************************************************************************)
(* Update-detection pipeline of the course monitor bot: the preference     *)
(* store, the TTL cache in front of the scraper, the diff of two section   *)
(* snapshots, the chunked sender and the periodic broadcast cycle, with    *)
(* the /removecourse handler running between the cycle's awaits.           *)
(***************************************************************************)
EXTENDS Integers, Sequences, FiniteSets, TLC

\* ------------------------------------------------------------------------
\* Bounds of the model
\* ------------------------------------------------------------------------
MaxCycles == 2
MaxCommands == 1
MaxTime == 1
\* sections in one snapshot handed to the diff on its own
MaxSections == 2
\* length of one rendered line, and the message limit in the same unit: a
\* scaled stand-in for constants.MessageLimit.MAX_TEXT_LENGTH that lets a
\* notification of four lines or more span two chunks
LineLen == 3
msg_limit == 13
\* blocks in one list handed to send_long_message on its own
MaxBlocks == 3
\* in the unit of msg_limit: the length of a title, of the "* (part i/N)"
\* around it, and of the text around the title in the fallback message
MaxTitle == 1
part_label_len == 1
fallback_text_len == 1

Chats == {1, 2}
Courses == {"A", "B"}

\* ------------------------------------------------------------------------
\* Program constants
\* ------------------------------------------------------------------------
\* config.CACHE_TTL_SECONDS, in ticks of the model clock
CACHE_TTL_SECONDS == 1
\* job_queue.run_repeating is called without job_kwargs, so the scheduler's
\* default of one running instance per job applies
max_instances == 1

\* ------------------------------------------------------------------------
\* Values
\* ------------------------------------------------------------------------
\* a key absent from a section dict, or a value that is not an int
Missing == 0 - 1

Sec(course, label, nbr, enr, cap) ==
    [course |-> course, section |-> label, classNbr |-> nbr,
     enrolled |-> enr, enrlCap |-> cap]

\* what the portal may answer for a course: ordered lists of section records
PortalData(course) ==
    IF course = "A"
    THEN { << Sec("A", 1, 1, 0, 1) >>,
           << Sec("A", 1, 1, 1, 1), Sec("A", 2, 2, 0, 1) >> }
    ELSE { << >>, << Sec("B", 1, 3, 0, 1) >> }

\* a 200 body that is valid JSON of an unexpected shape: a list with one
\* object that carries none of the keys of a section
MalformedBody(course) == << Sec(course, Missing, Missing, Missing, Missing) >>

\* the body is a list of section objects
IsSnapshot(data) == \A i \in DOMAIN data : data[i].classNbr # Missing

\* student id of a chat once /setid has run; "" before
IdOf(c) == IF c = 1 THEN "11111111" ELSE "22222222"

\* ------------------------------------------------------------------------
\* Sequence helpers
\* ------------------------------------------------------------------------
RECURSIVE SelectIdx(_, _, _)
\* indices i of s, ascending, for which Keep[i] holds
SelectIdx(n, Keep, i) ==
    IF i > n THEN << >>
    ELSE IF Keep[i] THEN << i >> \o SelectIdx(n, Keep, i + 1)
    ELSE SelectIdx(n, Keep, i + 1)

Range(s) == { s[i] : i \in DOMAIN s }

Contains(s, x) == \E i \in DOMAIN s : s[i] = x

\* list.remove(x): drops the first occurrence
RemoveFirst(s, x) ==
    LET i == CHOOSE j \in DOMAIN s : s[j] = x /\ \A k \in 1..(j - 1) : s[k] # x
    IN  SubSeq(s, 1, i - 1) \o SubSeq(s, i + 1, Len(s))

\* ------------------------------------------------------------------------
\* models/tracking.py
\* ------------------------------------------------------------------------
TrackingInfo(chat_id, student_id, course, track_all, class_numbers) ==
    [chat_id |-> chat_id, student_id |-> student_id, course |-> course,
     track_all |-> track_all, class_numbers |-> class_numbers]

\* TrackingInfo.get_data_key
get_data_key(info) ==
    IF info.track_all THEN info.course ELSE info.course \o ":sections"

\* UserPreferences.default()
DefaultPrefs ==
    [id_no |-> "", courses |-> << >>, sections |-> << >>,
     previous_data |-> << >>]

\* dict.get(key, []) on a previous_data mapping
PreviousGet(previous_data, key) ==
    IF key \in DOMAIN previous_data THEN previous_data[key] ELSE << >>

\* previous_data[key] = value
PreviousSet(previous_data, key, value) ==
    [k \in (DOMAIN previous_data) \cup {key} |->
        IF k = key THEN value ELSE previous_data[k]]

\* previous_data.pop(key, None)
PreviousPop(previous_data, key) ==
    [k \in (DOMAIN previous_data) \ {key} |-> previous_data[k]]

\* prefs.sections is a dict course -> list of class numbers, kept here as the
\* list of its items in insertion order
SectionsHas(sections, course) ==
    \E i \in DOMAIN sections : sections[i].course = course

SectionsGet(sections, course) ==
    IF SectionsHas(sections, course)
    THEN (CHOOSE e \in Range(sections) : e.course = course).class_numbers
    ELSE << >>

SectionsPop(sections, course) ==
    LET keep == SelectIdx(Len(sections),
                          [i \in DOMAIN sections |-> sections[i].course # course], 1)
    IN  [j \in DOMAIN keep |-> sections[keep[j]]]

SectionsPut(sections, course, numbers) ==
    [i \in DOMAIN sections |->
        IF sections[i].course = course
        THEN [course |-> course, class_numbers |-> numbers]
        ELSE sections[i]]

\* ------------------------------------------------------------------------
\* bot/formatter.py
\* ------------------------------------------------------------------------
\* an index that hands its sections out last in, first out
by_number_reversed(snapshot) ==
    LET have == SelectIdx(Len(snapshot),
                   [i \in DOMAIN snapshot |-> snapshot[i].classNbr # Missing], 1)
    IN  [j \in DOMAIN have |-> snapshot[have[Len(have) + 1 - j]]]

\* {s["classNbr"]: s for s in snapshot if "classNbr" in s}, as the list of the
\* dict's values in insertion order: a key keeps the position of its first
\* occurrence and the value of its last
by_number(snapshot) ==
    LET first == SelectIdx(Len(snapshot),
                     [i \in DOMAIN snapshot |->
                        /\ snapshot[i].classNbr # Missing
                        /\ \A k \in 1..(i - 1) :
                              snapshot[k].classNbr # snapshot[i].classNbr], 1)
        last(nbr) == CHOOSE i \in DOMAIN snapshot :
                        /\ snapshot[i].classNbr = nbr
                        /\ \A k \in (i + 1)..Len(snapshot) : snapshot[k].classNbr # nbr
    IN  [j \in DOMAIN first |-> snapshot[last(snapshot[first[j]].classNbr)]]

\* k in index
HasNumber(index, nbr) == \E i \in DOMAIN index : index[i].classNbr = nbr

Lookup(index, nbr) == CHOOSE s \in Range(index) : s.classNbr = nbr

\* a type test that lets every value through
IsIntAlways(x) == TRUE

\* isinstance(x, int)
IsInt(x) == x # Missing

\* a diff that takes the added sections from the old snapshot and the
\* removed ones from the new
diff_courses_swapped(old, new) ==
    LET old_by_number == by_number(old)
        new_by_number == by_number(new)
        addIdx == SelectIdx(Len(old_by_number),
                     [i \in DOMAIN old_by_number |->
                        ~HasNumber(new_by_number, old_by_number[i].classNbr)], 1)
        remIdx == SelectIdx(Len(new_by_number),
                     [i \in DOMAIN new_by_number |->
                        ~HasNumber(old_by_number, new_by_number[i].classNbr)], 1)
    IN  [added |-> [j \in DOMAIN addIdx |-> old_by_number[addIdx[j]]],
         removed |-> [j \in DOMAIN remIdx |-> new_by_number[remIdx[j]]],
         enrollment |-> << >>]

\* a diff that reports every section found in both snapshots, changed or not
diff_courses_every_common(old, new) ==
    LET old_by_number == by_number(old)
        new_by_number == by_number(new)
        chgIdx == SelectIdx(Len(new_by_number),
                     [i \in DOMAIN new_by_number |->
                        HasNumber(old_by_number, new_by_number[i].classNbr)], 1)
    IN  [added |-> << >>,
         removed |-> << >>,
         enrollment |->
            [j \in DOMAIN chgIdx |->
                [section |-> new_by_number[chgIdx[j]],
                 old_enrolled |->
                    Lookup(old_by_number, new_by_number[chgIdx[j]].classNbr).enrolled,
                 new_enrolled |-> new_by_number[chgIdx[j]].enrolled]]]

\* a diff that forgets to look the class number up in the old snapshot
diff_courses_all_added(old, new) ==
    [added |-> by_number(new), removed |-> << >>, enrollment |-> << >>]

diff_courses(old, new) ==
    LET old_by_number == by_number(old)
        new_by_number == by_number(new)
        addIdx == SelectIdx(Len(new_by_number),
                     [i \in DOMAIN new_by_number |->
                        ~HasNumber(old_by_number, new_by_number[i].classNbr)], 1)
        remIdx == SelectIdx(Len(old_by_number),
                     [i \in DOMAIN old_by_number |->
                        ~HasNumber(new_by_number, old_by_number[i].classNbr)], 1)
        chgIdx == SelectIdx(Len(new_by_number),
                     [i \in DOMAIN new_by_number |->
                        /\ HasNumber(old_by_number, new_by_number[i].classNbr)
                        /\ IsInt(Lookup(old_by_number, new_by_number[i].classNbr).enrolled)
                        /\ IsInt(new_by_number[i].enrolled)
                        /\ Lookup(old_by_number, new_by_number[i].classNbr).enrolled
                              # new_by_number[i].enrolled], 1)
    IN  [added |-> [j \in DOMAIN addIdx |-> new_by_number[addIdx[j]]],
         removed |-> [j \in DOMAIN remIdx |-> old_by_number[remIdx[j]]],
         enrollment |->
            [j \in DOMAIN chgIdx |->
                [section |-> new_by_number[chgIdx[j]],
                 old_enrolled |->
                    Lookup(old_by_number, new_by_number[chgIdx[j]].classNbr).enrolled,
                 new_enrolled |-> new_by_number[chgIdx[j]].enrolled]]]

\* any(changes.values())
AnyChanges(changes) ==
    changes.added # << >> \/ changes.removed # << >> \/ changes.enrollment # << >>

\* compose_update_lines: the title line, then per non-empty list one heading
\* and one block per entry; a block is kept as its length
compose_update_lines(changes) ==
    LET part(list) == IF list = << >> THEN << >>
                      ELSE << LineLen >> \o [i \in DOMAIN list |-> LineLen]
    IN  << LineLen >> \o part(changes.added) \o part(changes.removed)
           \o part(changes.enrollment)

\* the order of strings that the sort of compose_update_lines compares
\* courses by
CourseRank(course) == IF course = "A" THEN 1 ELSE 2

\* (c["section"].get("course", ""), c["section"].get("section", "")) of one
\* change is less than or equal to that of another; a missing section label
\* is "", which sorts before every label
KeyLeq(a, b) ==
    \/ CourseRank(a.section.course) < CourseRank(b.section.course)
    \/ /\ a.section.course = b.section.course
       /\ a.section.section <= b.section.section

RECURSIVE SortInto(_, _, _)
\* sorted(): the changes from the i-th on are put in place one by one, each
\* behind the changes that do not come after it, so that equal keys keep
\* their order
SortInto(list, i, done) ==
    IF i > Len(list) THEN done
    ELSE LET x == list[i]
             ahead == SelectIdx(Len(done),
                         [k \in DOMAIN done |-> KeyLeq(done[k], x)], 1)
             behind == SelectIdx(Len(done),
                         [k \in DOMAIN done |-> ~KeyLeq(done[k], x)], 1)
         IN  SortInto(list, i + 1,
                      [k \in DOMAIN ahead |-> done[ahead[k]]] \o << x >>
                         \o [k \in DOMAIN behind |-> done[behind[k]]])

\* a rendering that takes the changes in the order of the diff
sorted_changes_as_given(enrollment) == enrollment

\* compose_update_lines lines 91-94: the order in which the enrollment
\* changes are rendered
sorted_changes(enrollment) == SortInto(enrollment, 1, << >>)

\* ------------------------------------------------------------------------
\* services/notifier.py: send_long_message, the packing of lines into chunks
\* ------------------------------------------------------------------------
\* a chunk under construction: the blocks joined so far and the length of the
\* joined text (blocks are joined by "\n\n")
EmptyChunk == [blocks |-> << >>, len |-> 0]

RECURSIVE PackLines(_, _, _, _)
PackLines(text_lines, i, chunks, current_chunk) ==
    IF i > Len(text_lines)
    THEN IF current_chunk.len > 0 THEN Append(chunks, current_chunk) ELSE chunks
    ELSE LET line == text_lines[i]
             sep == IF current_chunk.len > 0 THEN 2 ELSE 0
         IN  IF current_chunk.len + sep + line > msg_limit
             THEN PackLines(text_lines, i + 1, Append(chunks, current_chunk),
                            [blocks |-> << line >>, len |-> line])
             ELSE PackLines(text_lines, i + 1, chunks,
                            [blocks |-> Append(current_chunk.blocks, line),
                             len |-> current_chunk.len + sep + line])

Chunks(text_lines) == PackLines(text_lines, 1, << >>, EmptyChunk)

\* ------------------------------------------------------------------------
\* services/scraper.py
\* ------------------------------------------------------------------------
\* [s for s in sections if s.get("classNbr") in class_numbers], applied only
\* when class_numbers is a non-empty list
FilterSections(sections, class_numbers) ==
    IF class_numbers = << >> THEN sections
    ELSE LET keep == SelectIdx(Len(sections),
                        [i \in DOMAIN sections |->
                            Contains(class_numbers, sections[i].classNbr)], 1)
         IN  [j \in DOMAIN keep |-> sections[keep[j]]]

\* what one request to the scraper can come back with; "malformed" is a 200
\* whose body resp.json() cannot decode, so that it raises
Responses(course) ==
    { [kind |-> k, data |-> << >>] :
        k \in {"http503", "httpOther", "timeout", "connect", "malformed"} }
    \cup { [kind |-> "http200", data |-> d] :
              d \in PortalData(course) \cup {MalformedBody(course)} }

\* a portal whose data does not change: what it holds for a course, and what
\* a request to it can come back with
Upstream(course) ==
    IF course = "A" THEN << Sec("A", 1, 1, 1, 1), Sec("A", 2, 2, 0, 1) >>
    ELSE << Sec("B", 1, 3, 0, 1) >>

SteadyResponses(course) ==
    { resp \in Responses(course) :
        resp.kind = "http200" => resp.data = Upstream(course) }

\* how a response is told apart afterwards: its kind, with the 200 of an
\* unexpected shape set apart from the 200 that carries a snapshot
ResponseClass(resp) ==
    IF resp.kind = "http200" /\ ~IsSnapshot(resp.data) THEN "misshapen"
    ELSE resp.kind

\* services/cache.py
get_cache_key(course, student_id) == << course, student_id >>

\* an entry still valid at the very end of its time to live
is_valid_inclusive(entry, t) == t - entry.timestamp <= CACHE_TTL_SECONDS

\* CacheEntry.is_valid
is_valid(entry, t) == t - entry.timestamp < CACHE_TTL_SECONDS

\* ------------------------------------------------------------------------
\* State
\* ------------------------------------------------------------------------
VARIABLES
    subscriptions,  \* StorageService.subscriptions: chat id -> UserPreferences
    disk,           \* contents of the subscriptions file
    cache,          \* CacheService.cache: key -> CacheEntry
    hits,           \* CacheService.hits
    misses,         \* CacheService.misses
    now,            \* datetime.now()
    jobs,           \* the running instances of broadcast_updates
    handler,        \* the command handler in flight, at its await
    cyclesRun,      \* triggers of the repeating job so far
    commandsRun,    \* commands received so far
    CACHE_ENABLED,  \* config.CACHE_ENABLED, read from the environment at start
    puts,           \* history: the keys CacheService.set was ever called with
    call            \* a function called on its own: its arguments and result

vars == << subscriptions, disk, cache, hits, misses, now, jobs, handler,
           cyclesRun, commandsRun, CACHE_ENABLED, puts, call >>

\* one more slot than the scheduler lets run, so that an overlap is a state
Slots == 1..(max_instances + 1)

\* One instance of broadcast_updates.  pc is the await it stands at ("fetch",
\* "send", "fallback", "sleep") or the code it is about to run without an
\* await ("loop", "return"); items, idx, previous_sections, current_sections
\* and part are its locals.  The other fields record what the instance has
\* done: for the item at idx whether it had a previous entry, whether the
\* cache answered, what the request came back with, how the fetch ended, the calls of send_message and whether line 66 ran; for the cycle
\* the subscribers that were blocked, the items begun, the saves, how it
\* ended and the triggers skipped while it ran.
IdleJob ==
    [pc |-> "idle", items |-> << >>, shared |-> {}, idx |-> 0,
     previous_sections |-> << >>, current_sections |-> << >>,
     chunks |-> 0, part |-> 0,
     had_previous |-> FALSE, fetch |-> "none", response |-> "none",
     outcome |-> "none",
     sends |-> 0, stored |-> FALSE,
     blocked |-> {}, attempts |-> 0, saves |-> 0, result |-> "none",
     skipped |-> FALSE]

NoHandler == [pc |-> "none", chat |-> 0, removed |-> FALSE]

Prefs(id_no, courses, sections, previous_data) ==
    [id_no |-> id_no, courses |-> courses, sections |-> sections,
     previous_data |-> previous_data]

SectionsOf(course, numbers) == [course |-> course, class_numbers |-> numbers]

\* preference stores the bot can find on disk when it starts; /addcourse
\* does not ask for a student id, so a subscriber can track items with none
InitStores ==
    { << >>,
      [c \in {1} |-> DefaultPrefs],
      [c \in Chats |->
         IF c = 1
         THEN Prefs("", << "A" >>, << SectionsOf("B", << 3 >>) >>, << >>)
         ELSE Prefs(IdOf(c), << "B" >>, << >>, << >>)],
      [c \in Chats |->
         IF c = 1
         THEN Prefs(IdOf(1), << "A" >>, << SectionsOf("A", << 1 >>) >>,
                    [k \in {"A"} |-> << Sec("A", 1, 1, 0, 1) >>])
         ELSE Prefs(IdOf(c), << "B" >>, << >>, << >>)] }

\* no function is called on its own
NoCall == [fn |-> "none"]

Init ==
    /\ subscriptions \in InitStores
    /\ disk = subscriptions
    /\ cache = << >>
    /\ hits = 0
    /\ misses = 0
    /\ now = 0
    /\ jobs = [j \in Slots |-> IdleJob]
    /\ handler = NoHandler
    /\ cyclesRun = 0
    /\ commandsRun = 0
    /\ CACHE_ENABLED \in BOOLEAN
    /\ puts = {}
    /\ call = NoCall

\* no coroutine is in the middle of a stretch of code without an await
Quiescent == \A j \in Slots : jobs[j].pc \notin {"loop", "return"}

RunningInstances == Cardinality({ j \in Slots : jobs[j].pc # "idle" })

\* ------------------------------------------------------------------------
\* bot/scheduler.py: broadcast_updates
\* ------------------------------------------------------------------------
\* an enumeration that does not look at the student id
ItemsOfAnyId(chat_id, prefs) ==
    LET some == SelectIdx(Len(prefs.sections),
                   [i \in DOMAIN prefs.sections |->
                       prefs.sections[i].class_numbers # << >>], 1)
    IN  [i \in DOMAIN prefs.courses |->
           TrackingInfo(chat_id, prefs.id_no, prefs.courses[i], TRUE, << >>)]
        \o
        [j \in DOMAIN some |->
           TrackingInfo(chat_id, prefs.id_no, prefs.sections[some[j]].course,
                        FALSE, prefs.sections[some[j]].class_numbers)]

\* the tracking items of one subscriber: whole courses first, then the
\* courses with a non-empty list of class numbers
ItemsOf(chat_id, prefs) ==
    IF prefs.id_no = "" THEN << >>
    ELSE LET some == SelectIdx(Len(prefs.sections),
                        [i \in DOMAIN prefs.sections |->
                            prefs.sections[i].class_numbers # << >>], 1)
         IN  [i \in DOMAIN prefs.courses |->
                TrackingInfo(chat_id, prefs.id_no, prefs.courses[i], TRUE, << >>)]
             \o
             [j \in DOMAIN some |->
                TrackingInfo(chat_id, prefs.id_no, prefs.sections[some[j]].course,
                             FALSE, prefs.sections[some[j]].class_numbers)]

RECURSIVE AllTrackingInfos(_, _)
\* subscribers are visited in the order of the dict, here ascending chat id
AllTrackingInfos(subs, c) ==
    IF c \notin Chats THEN << >>
    ELSE (IF c \in DOMAIN subs THEN ItemsOf(c, subs[c]) ELSE << >>)
         \o AllTrackingInfos(subs, c + 1)

\* class_numbers=class_numbers hands the item the list object of
\* prefs.sections itself: the items whose list a later command still mutates
SharedLists(items) == { i \in DOMAIN items : ~items[i].track_all }

\* a job registered with no limit on its running instances
CanTriggerAlways == TRUE

\* the scheduler starts an instance only below max_instances
CanTrigger == RunningInstances < max_instances

\* the interval fires and the job starts: lines 20-57, up to the loop
Trigger(j) ==
    /\ Quiescent
    /\ CanTrigger
    /\ cyclesRun < MaxCycles
    /\ jobs[j].pc = "idle"
    /\ \A k \in Slots : k < j => jobs[k].pc # "idle"
    /\ cyclesRun' = cyclesRun + 1
    /\ LET all_tracking_infos == AllTrackingInfos(subscriptions, 1)
       IN  jobs' = [jobs EXCEPT ![j] =
              IF DOMAIN subscriptions = {} \/ all_tracking_infos = << >>
              THEN [IdleJob EXCEPT !.result = "returned"]
              ELSE [IdleJob EXCEPT !.pc = "loop", !.items = all_tracking_infos,
                                   !.idx = 1, !.result = "running",
                                   !.shared = SharedLists(all_tracking_infos)]]
    /\ UNCHANGED << CACHE_ENABLED, puts >>
    /\ UNCHANGED << subscriptions, disk, cache, hits, misses, now, handler,
                    commandsRun >>
    /\ UNCHANGED call

\* the interval fires while max_instances runs are under way: the run is
\* skipped
TriggerSkipped ==
    /\ Quiescent
    /\ ~CanTrigger
    /\ cyclesRun < MaxCycles
    /\ cyclesRun' = cyclesRun + 1
    /\ jobs' = [j \in Slots |->
          IF jobs[j].pc # "idle" THEN [jobs[j] EXCEPT !.skipped = TRUE]
          ELSE jobs[j]]
    /\ UNCHANGED << CACHE_ENABLED, puts >>
    /\ UNCHANGED << subscriptions, disk, cache, hits, misses, now, handler,
                    commandsRun >>
    /\ UNCHANGED call

\* process_course_updates after a successful fetch: diff, then either the
\* first chunk of the notification is on its way or there is nothing to send
Diffed(job, current_sections) ==
    LET changes == diff_courses(job.previous_sections, current_sections)
        done == [job EXCEPT !.current_sections = current_sections,
                            !.outcome = "ok"]
    IN  IF AnyChanges(changes)
        THEN [done EXCEPT !.pc = "send", !.part = 1,
                          !.chunks = Len(Chunks(compose_update_lines(changes)))]
        ELSE [done EXCEPT !.pc = "return"]

\* scheduler line 66
StoreSnapshot(subs, info, current_data) ==
    IF info.chat_id \in DOMAIN subs
    THEN [subs EXCEPT ![info.chat_id].previous_data =
             PreviousSet(@, get_data_key(info), current_data)]
    ELSE subs

\* the for loop of line 60 moves on
NextItem(job) == [job EXCEPT !.pc = "loop", !.idx = job.idx + 1]

\* process_course_updates returned the snapshot and line 66 ran
Returned(job) == NextItem([job EXCEPT !.stored = TRUE])

\* a block handed on as an empty snapshot instead of None
OnBlockedReturnsEmpty(job) ==
    [job EXCEPT !.outcome = "blocked", !.current_sections = << >>,
                !.blocked = @ \cup {job.items[job.idx].chat_id},
                !.pc = "return"]

\* process_course_updates caught CloudflareBlockedError: returns None
OnBlocked(job) ==
    NextItem([job EXCEPT !.outcome = "blocked",
                         !.blocked = @ \cup {job.items[job.idx].chat_id}])

\* a failed fetch handed on as an empty snapshot instead of None
OnErrorReturnsEmpty(job) ==
    [job EXCEPT !.outcome = "error", !.current_sections = << >>,
                !.pc = "return"]

\* fetch_and_filter_data returned None: process_course_updates returns None
OnError(job) == NextItem([job EXCEPT !.outcome = "error"])

\* an exception leaves broadcast_updates: the run ends, nothing is saved
Raised(job, what) == [job EXCEPT !.pc = "idle", !.result = what]

\* an eager get: an entry found expired is dropped by the lookup
get_evicting(course, student_id) ==
    LET cache_key == get_cache_key(course, student_id)
        entry_valid == /\ cache_key \in DOMAIN cache
                       /\ is_valid(cache[cache_key], now)
    IN  [found |-> entry_valid,
         data |-> IF entry_valid THEN cache[cache_key].data ELSE << >>,
         cache |-> IF entry_valid THEN cache
                   ELSE [k \in (DOMAIN cache) \ {cache_key} |-> cache[k]],
         hits |-> IF entry_valid THEN hits + 1 ELSE hits,
         misses |-> IF entry_valid THEN misses ELSE misses + 1]

\* CacheService.get: whether it returns data (found) and which, and the
\* entries and counters it leaves behind
get(course, student_id) ==
    LET cache_key == get_cache_key(course, student_id)
        entry_valid == /\ cache_key \in DOMAIN cache
                       /\ is_valid(cache[cache_key], now)
    IN  [found |-> entry_valid,
         data |-> IF entry_valid THEN cache[cache_key].data ELSE << >>,
         cache |-> cache,
         hits |-> IF entry_valid THEN hits + 1 ELSE hits,
         misses |-> IF entry_valid THEN misses ELSE misses + 1]

\* CacheService.get of the item's key finds a valid entry
CacheHit(info) ==
    LET key == get_cache_key(info.course, info.student_id)
    IN  CACHE_ENABLED /\ key \in DOMAIN cache /\ is_valid(cache[key], now)

\* statistics that forget the entries past their time to live
get_stats_live ==
    LET valid == { k \in DOMAIN cache : is_valid(cache[k], now) }
    IN  [ total_entries   |-> Cardinality(valid),
          valid_entries   |-> Cardinality(valid),
          expired_entries |-> 0,
          hits            |-> hits,
          misses          |-> misses ]

\* CacheService.get_stats (the hit rate, a formatted quotient of hits and
\* misses, is left out)
get_stats ==
    LET valid == { k \in DOMAIN cache : is_valid(cache[k], now) }
    IN  [ total_entries   |-> Cardinality(DOMAIN cache),
          valid_entries   |-> Cardinality(valid),
          expired_entries |-> Cardinality(DOMAIN cache) - Cardinality(valid),
          hits            |-> hits,
          misses          |-> misses ]

\* a set that stores nothing
CacheSetSkipped(c, course, student_id, data) == c

\* CacheService.set
CacheSet(c, course, student_id, data) ==
    LET key == get_cache_key(course, student_id)
    IN  [k \in (DOMAIN c) \cup {key} |->
            IF k = key
            THEN [course |-> course, student_id |-> student_id,
                  data |-> data, timestamp |-> now]
            ELSE c[k]]

\* StorageService.save: the file holds the store as it is now
Saved(subs) == subs

\* line 61 and process_course_updates up to the await of the request; with
\* a valid cache entry there is no request and the diff follows at once
BeginItem(j) ==
    /\ jobs[j].pc = "loop"
    /\ jobs[j].idx <= Len(jobs[j].items)
    /\ LET job == jobs[j]
           info == job.items[job.idx]
       IN  IF info.chat_id \notin DOMAIN subscriptions
           THEN /\ jobs' = [jobs EXCEPT ![j] =
                      Raised([job EXCEPT !.outcome = "none"], "key_error")]
                /\ UNCHANGED << hits, misses >>
           ELSE LET previous_data == subscriptions[info.chat_id].previous_data
                    data_key == get_data_key(info)
                    started(fetch) ==
                        [job EXCEPT
                            !.previous_sections = PreviousGet(previous_data, data_key),
                            !.current_sections = << >>,
                            !.chunks = 0, !.part = 0,
                            !.had_previous = data_key \in DOMAIN previous_data,
                            !.fetch = fetch, !.response = "none",
                            !.outcome = "pending",
                            !.sends = 0, !.stored = FALSE,
                            !.attempts = job.attempts + 1]
                IN  IF CacheHit(info)
                    THEN /\ hits' = hits + 1
                         /\ misses' = misses
                         /\ jobs' = [jobs EXCEPT ![j] =
                               Diffed(started("hit"),
                                  FilterSections(
                                     cache[get_cache_key(info.course,
                                                         info.student_id)].data,
                                     info.class_numbers))]
                    ELSE /\ hits' = hits
                         /\ misses' = IF CACHE_ENABLED THEN misses + 1 ELSE misses
                         /\ jobs' = [jobs EXCEPT ![j] =
                               [started("miss") EXCEPT !.pc = "fetch"]]
    /\ LET info == jobs[j].items[jobs[j].idx]
       IN  cache' = IF info.chat_id \in DOMAIN subscriptions /\ CACHE_ENABLED
                    THEN get(info.course, info.student_id).cache
                    ELSE cache
    /\ UNCHANGED << CACHE_ENABLED, puts >>
    /\ UNCHANGED << subscriptions, disk, now, handler, cyclesRun,
                    commandsRun >>
    /\ UNCHANGED call

\* the request to the scraper comes back
FetchReturn(j, resp) ==
    /\ Quiescent
    /\ jobs[j].pc = "fetch"
    /\ LET job == [jobs[j] EXCEPT !.response = ResponseClass(resp)]
           info == job.items[job.idx]
       IN  /\ resp \in Responses(info.course)
           /\ IF resp.kind = "http200"
              THEN /\ cache' = IF CACHE_ENABLED
                               THEN CacheSet(cache, info.course, info.student_id,
                                             resp.data)
                               ELSE cache
                   /\ jobs' = [jobs EXCEPT ![j] =
                         Diffed(job, FilterSections(resp.data, info.class_numbers))]
              ELSE /\ cache' = cache
                   /\ jobs' = [jobs EXCEPT ![j] =
                         IF resp.kind = "http503" THEN OnBlocked(job)
                         ELSE OnError(job)]
           /\ puts' = IF resp.kind = "http200" /\ CACHE_ENABLED
                      THEN puts \cup {get_cache_key(info.course,
                                                    info.student_id)}
                      ELSE puts
    /\ UNCHANGED CACHE_ENABLED
    /\ UNCHANGED << subscriptions, disk, hits, misses, now, handler, cyclesRun,
                    commandsRun >>
    /\ UNCHANGED call

\* process_course_updates returns the snapshot: lines 65-66
ReturnSnapshot(j) ==
    /\ jobs[j].pc = "return"
    /\ LET job == jobs[j]
       IN  /\ subscriptions' = StoreSnapshot(subscriptions, job.items[job.idx],
                                             job.current_sections)
           /\ jobs' = [jobs EXCEPT ![j] = Returned(job)]
    /\ UNCHANGED << CACHE_ENABLED, puts >>
    /\ UNCHANGED << disk, cache, hits, misses, now, handler, cyclesRun,
                    commandsRun >>
    /\ UNCHANGED call

\* send_long_message after send_message raised for chunk `part`: the except
\* branch sends the error notice for the first chunk, and breaks
OnSendFailure(job) ==
    IF job.part = 1 THEN [job EXCEPT !.pc = "fallback"]
    ELSE [job EXCEPT !.pc = "return"]

\* the error notice raised too: nothing in send_long_message, in
\* process_course_updates or in broadcast_updates catches it
OnFallbackFailure(job) == Raised(job, "delivery_error")

\* ctx.bot.send_message for chunk `part` returns or raises
SendReturn(j, ok) ==
    /\ Quiescent
    /\ jobs[j].pc = "send"
    /\ LET job == [jobs[j] EXCEPT !.sends = @ + 1]
       IN  jobs' = [jobs EXCEPT ![j] =
              IF ok THEN [job EXCEPT !.pc = "sleep"] ELSE OnSendFailure(job)]
    /\ UNCHANGED << CACHE_ENABLED, puts >>
    /\ UNCHANGED << subscriptions, disk, cache, hits, misses, now, handler,
                    cyclesRun, commandsRun >>
    /\ UNCHANGED call

\* the error notice sent from the except branch returns or raises
FallbackReturn(j, ok) ==
    /\ Quiescent
    /\ jobs[j].pc = "fallback"
    /\ LET job == [jobs[j] EXCEPT !.sends = @ + 1]
       IN  jobs' = [jobs EXCEPT ![j] =
              IF ok THEN [job EXCEPT !.pc = "return"]
              ELSE OnFallbackFailure(job)]
    /\ UNCHANGED << CACHE_ENABLED, puts >>
    /\ UNCHANGED << subscriptions, disk, cache, hits, misses, now, handler,
                    cyclesRun, commandsRun >>
    /\ UNCHANGED call

\* asyncio.sleep(0.5) after a chunk returns
SleepReturn(j) ==
    /\ Quiescent
    /\ jobs[j].pc = "sleep"
    /\ LET job == jobs[j]
       IN  jobs' = [jobs EXCEPT ![j] =
              IF job.part < job.chunks
              THEN [job EXCEPT !.pc = "send", !.part = job.part + 1]
              ELSE [job EXCEPT !.pc = "return"]]
    /\ UNCHANGED << CACHE_ENABLED, puts >>
    /\ UNCHANGED << subscriptions, disk, cache, hits, misses, now, handler,
                    cyclesRun, commandsRun >>
    /\ UNCHANGED call

\* a cycle that ends without the save
FinishWithoutSave(j) ==
    /\ jobs[j].pc = "loop"
    /\ jobs[j].idx > Len(jobs[j].items)
    /\ jobs' = [jobs EXCEPT ![j] =
          [jobs[j] EXCEPT !.pc = "idle", !.result = "completed"]]
    /\ UNCHANGED << CACHE_ENABLED, puts >>
    /\ UNCHANGED << subscriptions, disk, cache, hits, misses, now, handler,
                    cyclesRun, commandsRun >>
    /\ UNCHANGED call

\* after the loop: self.storage.save()
Finish(j) ==
    /\ jobs[j].pc = "loop"
    /\ jobs[j].idx > Len(jobs[j].items)
    /\ disk' = Saved(subscriptions)
    /\ jobs' = [jobs EXCEPT ![j] =
          [jobs[j] EXCEPT !.pc = "idle", !.result = "completed",
                          !.saves = jobs[j].saves + 1]]
    /\ UNCHANGED << CACHE_ENABLED, puts >>
    /\ UNCHANGED << subscriptions, cache, hits, misses, now, handler, cyclesRun,
                    commandsRun >>
    /\ UNCHANGED call

\* time passes while something is awaited
Tick ==
    /\ Quiescent
    /\ now < MaxTime
    /\ now' = now + 1
    /\ UNCHANGED << CACHE_ENABLED, puts >>
    /\ UNCHANGED << subscriptions, disk, cache, hits, misses, jobs, handler,
                    cyclesRun, commandsRun >>
    /\ UNCHANGED call

\* ------------------------------------------------------------------------
\* utils/helpers.py and bot/commands.py: /removecourse
\* ------------------------------------------------------------------------
\* a command argument is kept as its parts around the first ":"
CommandArgs ==
    { << "A" >>, << "B" >>, << "A", "0" >>, << "A", "1" >>, << "A", "x" >> }

\* str.isdigit on the part after the colon
IsDigit(nbr_str) == nbr_str \in {"0", "1", "2"}

\* int(nbr_str)
IntOf(nbr_str) == CASE nbr_str = "0" -> 0 [] nbr_str = "1" -> 1 [] OTHER -> 2

\* parse_course_arg: class_number None is kept as Missing, a ValueError as
\* ok = FALSE
parse_course_arg(arg) ==
    IF Len(arg) = 1
    THEN [ok |-> TRUE, course |-> arg[1], class_number |-> Missing]
    ELSE IF ~IsDigit(arg[2])
         THEN [ok |-> FALSE, course |-> arg[1], class_number |-> Missing]
         ELSE [ok |-> TRUE, course |-> arg[1], class_number |-> IntOf(arg[2])]

\* lines 215-223: stop tracking a whole course
RemoveWholeCourse(prefs, course) ==
    [prefs EXCEPT !.courses = RemoveFirst(@, course),
                  !.previous_data = PreviousPop(@, course)]

\* a removal that always drops the snapshot stored for the course's sections
RemoveSectionDroppingSnapshot(prefs, course, class_number) ==
    LET numbers == RemoveFirst(SectionsGet(prefs.sections, course), class_number)
        sections == IF numbers = << >>
                    THEN SectionsPop(prefs.sections, course)
                    ELSE SectionsPut(prefs.sections, course, numbers)
    IN  [prefs EXCEPT !.sections = sections,
                      !.previous_data = PreviousPop(@, course \o ":sections")]

\* lines 229-236: stop tracking one class number of a course
RemoveSection(prefs, course, class_number) ==
    LET numbers == RemoveFirst(SectionsGet(prefs.sections, course), class_number)
        sections == IF numbers = << >>
                    THEN SectionsPop(prefs.sections, course)
                    ELSE SectionsPut(prefs.sections, course, numbers)
    IN  [prefs EXCEPT !.sections = sections,
                      !.previous_data =
                          IF ~SectionsHas(sections, course)
                          THEN PreviousPop(@, course \o ":sections")
                          ELSE @]

\* the in-place removal is seen by the items that hold the same list; a list
\* popped from prefs.sections is no longer reached by later commands
Unlisted(job, chat_id, course, class_number) ==
    LET hit == { i \in job.shared :
                    /\ job.items[i].chat_id = chat_id
                    /\ job.items[i].course = course }
    IN  [job EXCEPT
            !.items = [i \in DOMAIN job.items |->
                         IF i \in hit
                         THEN [job.items[i] EXCEPT !.class_numbers =
                                  RemoveFirst(@, class_number)]
                         ELSE job.items[i]],
            !.shared = { i \in job.shared :
                            i \in hit =>
                               RemoveFirst(job.items[i].class_numbers,
                                           class_number) # << >> }]

\* /removecourse up to the await of its reply; a command that removes
\* nothing only replies
RemoveCourse(chat_id, arg) ==
    /\ Quiescent
    /\ handler.pc = "none"
    /\ commandsRun < MaxCommands
    /\ LET parsed == parse_course_arg(arg)
           course == parsed.course
           class_number == parsed.class_number
           nothing == UNCHANGED << subscriptions, jobs, handler, commandsRun >>
           replying == /\ handler' = [pc |-> "reply", chat |-> chat_id,
                                      removed |-> TRUE]
                       /\ commandsRun' = commandsRun + 1
       IN  IF chat_id \notin DOMAIN subscriptions \/ ~parsed.ok
           THEN nothing
           ELSE LET prefs == subscriptions[chat_id]
                IN  IF class_number = Missing
                    THEN IF Contains(prefs.courses, course)
                         THEN /\ subscriptions' = [subscriptions EXCEPT
                                    ![chat_id] = RemoveWholeCourse(prefs, course)]
                              /\ replying
                              /\ jobs' = jobs
                         ELSE nothing
                    ELSE IF Contains(SectionsGet(prefs.sections, course),
                                     class_number)
                         THEN /\ subscriptions' = [subscriptions EXCEPT
                                    ![chat_id] = RemoveSection(prefs, course,
                                                               class_number)]
                              /\ replying
                              /\ jobs' = [j \in Slots |->
                                    Unlisted(jobs[j], chat_id, course,
                                             class_number)]
                         ELSE nothing
    /\ UNCHANGED << CACHE_ENABLED, puts >>
    /\ UNCHANGED << disk, cache, hits, misses, now, cyclesRun >>
    /\ UNCHANGED call

\* the reply of /removecourse returns or raises; lines 250-251 follow a reply
\* that returned: storage.update, which saves
RemoveCourseReply(ok) ==
    /\ Quiescent
    /\ handler.pc = "reply"
    /\ handler' = NoHandler
    /\ IF ok /\ handler.removed
       THEN disk' = Saved(subscriptions)
       ELSE disk' = disk
    /\ UNCHANGED << CACHE_ENABLED, puts >>
    /\ UNCHANGED << subscriptions, cache, hits, misses, now, jobs, cyclesRun,
                    commandsRun >>
    /\ UNCHANGED call

\* ------------------------------------------------------------------------
\* bot/commands.py: /course and /check, with notifier.send_course_status
\* ------------------------------------------------------------------------
\* A foreground handler in flight.  pc is the await it stands at: the first
\* reply ("fg_reply"), the request ("fg_fetch"), the block notice
\* ("fg_notice"), the failure message ("fg_failure"), the status messages
\* ("fg_status"), the pause between two items of /check ("fg_sleep") and the
\* closing reply ("fg_final"); "fg_done" is a handler that has ended.
\* items, idx, sections and cloudflare_blocked are its locals; the other
\* fields record what was done for the item at idx (whether the cache
\* answered, the requests made, what the request came back with, how the
\* fetch ended, which message was sent) and, for the run, the block notices
\* sent, the items begun and how the handler ended.
FgHandler(cmd, chat_id, items) ==
    [pc |-> "fg_reply", chat |-> chat_id, removed |-> FALSE, cmd |-> cmd,
     items |-> items, idx |-> 1, sections |-> << >>,
     cloudflare_blocked |-> FALSE,
     fetch |-> "none", requests |-> 0, response |-> "none",
     outcome |-> "none", said |-> "none",
     notices |-> 0, attempts |-> 0, result |-> "running"]

FgPcs == {"fg_reply", "fg_fetch", "fg_notice", "fg_failure", "fg_status",
          "fg_sleep", "fg_final", "fg_done"}

\* no handler is in flight
HandlerFree == handler.pc \in {"none", "fg_done"}

\* the handler ends
FgEnd(h, result) == [h EXCEPT !.pc = "fg_done", !.result = result]

\* send_course_status lines 92-97, fetch_and_filter_data and
\* fetch_course_data up to the request: the item at idx begins, and with a
\* valid cache entry the snapshot is there at once
FgBeginItem(h) ==
    LET info == h.items[h.idx]
        started == [h EXCEPT !.sections = << >>, !.requests = 0,
                             !.response = "none", !.outcome = "pending",
                             !.said = "none", !.attempts = h.attempts + 1]
    IN  IF CacheHit(info)
        THEN [started EXCEPT
                 !.pc = "fg_status", !.fetch = "hit", !.outcome = "ok",
                 !.sections = FilterSections(
                     cache[get_cache_key(info.course, info.student_id)].data,
                     info.class_numbers)]
        ELSE [started EXCEPT !.pc = "fg_fetch", !.fetch = "miss",
                             !.requests = 1]

\* the loops of /check at the next item, or past the last one; /course has
\* the one item
FgNextItem(h) ==
    IF h.idx <= Len(h.items) THEN FgBeginItem(h)
    ELSE IF h.cmd = "check" THEN [h EXCEPT !.pc = "fg_final"]
    ELSE FgEnd(h, "completed")

\* a get that is made whether or not caching is enabled
CountedGetAlways(h) ==
    IF h.idx > Len(h.items)
    THEN UNCHANGED << cache, hits, misses >>
    ELSE LET got == get(h.items[h.idx].course, h.items[h.idx].student_id)
         IN  /\ cache' = got.cache
             /\ hits' = got.hits
             /\ misses' = got.misses

\* CacheService.get as fetch_course_data calls it when an item begins
CountedGet(h) ==
    IF h.idx > Len(h.items) \/ ~CACHE_ENABLED
    THEN UNCHANGED << cache, hits, misses >>
    ELSE LET got == get(h.items[h.idx].course, h.items[h.idx].student_id)
         IN  /\ cache' = got.cache
             /\ hits' = got.hits
             /\ misses' = got.misses

\* /course <arg> up to the await of its first reply (lines 255-288); a command
\* that is turned away only replies
Course(chat_id, arg) ==
    /\ Quiescent
    /\ HandlerFree
    /\ commandsRun < MaxCommands
    /\ LET parsed == parse_course_arg(arg)
           class_number == parsed.class_number
       IN  IF \/ chat_id \notin DOMAIN subscriptions
              \/ ~parsed.ok
           THEN UNCHANGED << handler, commandsRun >>
           ELSE IF subscriptions[chat_id].id_no = ""
           THEN UNCHANGED << handler, commandsRun >>
           ELSE /\ handler' = FgHandler("course", chat_id,
                      << TrackingInfo(chat_id, subscriptions[chat_id].id_no,
                            parsed.course, class_number = Missing,
                            IF class_number # Missing /\ class_number # 0
                            THEN << class_number >> ELSE << >>) >>)
                /\ commandsRun' = commandsRun + 1
    /\ UNCHANGED << subscriptions, disk, cache, hits, misses, now, jobs,
                    cyclesRun, CACHE_ENABLED, puts >>
    /\ UNCHANGED call

\* /check up to the await of its first reply (lines 306-330)
Check(chat_id) ==
    /\ Quiescent
    /\ HandlerFree
    /\ commandsRun < MaxCommands
    /\ IF chat_id \notin DOMAIN subscriptions
       THEN UNCHANGED << handler, commandsRun >>
       ELSE LET prefs == subscriptions[chat_id]
            IN  IF prefs.id_no = ""
                   \/ (prefs.courses = << >> /\ prefs.sections = << >>)
                THEN UNCHANGED << handler, commandsRun >>
                ELSE /\ handler' = FgHandler("check", chat_id,
                                             ItemsOf(chat_id, prefs))
                     /\ commandsRun' = commandsRun + 1
    /\ UNCHANGED << subscriptions, disk, cache, hits, misses, now, jobs,
                    cyclesRun, CACHE_ENABLED, puts >>
    /\ UNCHANGED call

\* the first reply returns, and the first item begins, or raises
FgReplyReturn(ok) ==
    /\ Quiescent
    /\ handler.pc = "fg_reply"
    /\ IF ok
       THEN /\ handler' = FgNextItem(handler)
            /\ CountedGet(handler)
       ELSE /\ handler' = FgEnd(handler, "reply_error")
            /\ UNCHANGED << cache, hits, misses >>
    /\ UNCHANGED << subscriptions, disk, now, jobs, cyclesRun,
                    commandsRun, CACHE_ENABLED, puts >>
    /\ UNCHANGED call

\* a block in the foreground that is passed on without the notice
OnFgBlockedSilent(h) ==
    FgEnd([h EXCEPT !.outcome = "blocked", !.cloudflare_blocked = TRUE],
          "blocked")

\* send_course_status caught CloudflareBlockedError: line 99 tells the user
OnFgBlocked(h) == [h EXCEPT !.pc = "fg_notice", !.outcome = "blocked"]

\* a failed fetch in the foreground that is skipped as in the background
OnFgErrorSilent(h) ==
    IF h.cmd = "check"
    THEN [h EXCEPT !.pc = "fg_sleep", !.outcome = "error"]
    ELSE FgEnd([h EXCEPT !.outcome = "error"], "completed")

\* fetch_and_filter_data returned None: line 103 tells the user
OnFgError(h) == [h EXCEPT !.pc = "fg_failure", !.outcome = "error"]

\* the request of send_course_status comes back: a snapshot to show, a block
\* to tell the user of (line 99), or None and the failure message (line 103)
FgFetchReturn(resp) ==
    /\ Quiescent
    /\ handler.pc = "fg_fetch"
    /\ LET h == [handler EXCEPT !.response = ResponseClass(resp)]
           info == h.items[h.idx]
       IN  /\ resp \in Responses(info.course)
           /\ IF resp.kind = "http200"
              THEN /\ cache' = IF CACHE_ENABLED
                               THEN CacheSet(cache, info.course, info.student_id,
                                             resp.data)
                               ELSE cache
                   /\ handler' = [h EXCEPT
                         !.pc = "fg_status", !.outcome = "ok",
                         !.sections = FilterSections(resp.data,
                                                     info.class_numbers)]
              ELSE /\ cache' = cache
                   /\ handler' =
                         IF resp.kind = "http503" THEN OnFgBlocked(h)
                         ELSE OnFgError(h)
           /\ puts' = IF resp.kind = "http200" /\ CACHE_ENABLED
                      THEN puts \cup {get_cache_key(info.course,
                                                    info.student_id)}
                      ELSE puts
    /\ UNCHANGED << subscriptions, disk, hits, misses, now, jobs, cyclesRun,
                    commandsRun, CACHE_ENABLED >>
    /\ UNCHANGED call

\* notify_cloudflare_block: the notice returns or raises, which is caught and
\* logged; CloudflareBlockedError is then raised again, /check breaks out of
\* its loops and skips the closing reply, /course passes
FgNoticeReturn(ok) ==
    /\ Quiescent
    /\ handler.pc = "fg_notice"
    /\ handler' = FgEnd([handler EXCEPT !.said = IF ok THEN "notice"
                                                 ELSE "notice_lost",
                                        !.notices = handler.notices + 1,
                                        !.cloudflare_blocked = TRUE],
                        "blocked")
    /\ UNCHANGED << subscriptions, disk, cache, hits, misses, now, jobs,
                    cyclesRun, commandsRun, CACHE_ENABLED, puts >>
    /\ UNCHANGED call

\* what follows an item that send_course_status has returned from: /check
\* pauses, /course is over
FgItemDone(h) ==
    IF h.cmd = "check" THEN [h EXCEPT !.pc = "fg_sleep"]
    ELSE FgEnd(h, "completed")

\* the failure message of line 103 returns or raises; nothing catches it
FgFailureReturn(ok) ==
    /\ Quiescent
    /\ handler.pc = "fg_failure"
    /\ LET h == [handler EXCEPT !.said = "failure"]
       IN  handler' = IF ok THEN FgItemDone(h) ELSE FgEnd(h, "delivery_error")
    /\ UNCHANGED << subscriptions, disk, cache, hits, misses, now, jobs,
                    cyclesRun, commandsRun, CACHE_ENABLED, puts >>
    /\ UNCHANGED call

\* a status path that keeps what it has shown as the previous snapshot
FgStatusReturnStoring(ok) ==
    /\ Quiescent
    /\ handler.pc = "fg_status"
    /\ LET h == [handler EXCEPT !.said = "status"]
       IN  /\ handler' = IF ok THEN FgItemDone(h)
                         ELSE FgEnd(h, "delivery_error")
           /\ subscriptions' = StoreSnapshot(subscriptions, h.items[h.idx],
                                             h.sections)
    /\ UNCHANGED << disk, cache, hits, misses, now, jobs,
                    cyclesRun, commandsRun, CACHE_ENABLED, puts >>
    /\ UNCHANGED call

\* lines 109-135, the messages that show a fetched snapshot, taken as one
\* await: they return, or one of them raises out of send_course_status
FgStatusReturn(ok) ==
    /\ Quiescent
    /\ handler.pc = "fg_status"
    /\ LET h == [handler EXCEPT !.said = "status"]
       IN  handler' = IF ok THEN FgItemDone(h) ELSE FgEnd(h, "delivery_error")
    /\ UNCHANGED << subscriptions, disk, cache, hits, misses, now, jobs,
                    cyclesRun, commandsRun, CACHE_ENABLED, puts >>
    /\ UNCHANGED call

\* asyncio.sleep(0.5) of /check returns and the next item begins
FgSleepReturn ==
    /\ Quiescent
    /\ handler.pc = "fg_sleep"
    /\ LET h == [handler EXCEPT !.idx = handler.idx + 1]
       IN  /\ handler' = FgNextItem(h)
           /\ CountedGet(h)
    /\ UNCHANGED << subscriptions, disk, now, jobs, cyclesRun,
                    commandsRun, CACHE_ENABLED, puts >>
    /\ UNCHANGED call

\* the closing reply of /check returns or raises
FgFinalReturn(ok) ==
    /\ Quiescent
    /\ handler.pc = "fg_final"
    /\ handler' = FgEnd(handler, IF ok THEN "completed" ELSE "reply_error")
    /\ UNCHANGED << subscriptions, disk, cache, hits, misses, now, jobs,
                    cyclesRun, commandsRun, CACHE_ENABLED, puts >>
    /\ UNCHANGED call

\* ------------------------------------------------------------------------
\* The program
\* ------------------------------------------------------------------------
Next ==
    \/ \E j \in Slots : Trigger(j)
    \/ TriggerSkipped
    \/ \E j \in Slots : BeginItem(j)
    \/ \E j \in Slots : \E resp \in Responses("A") \cup Responses("B") :
          FetchReturn(j, resp)
    \/ \E j \in Slots : ReturnSnapshot(j)
    \/ \E j \in Slots : \E ok \in BOOLEAN : SendReturn(j, ok)
    \/ \E j \in Slots : \E ok \in BOOLEAN : FallbackReturn(j, ok)
    \/ \E j \in Slots : SleepReturn(j)
    \/ \E j \in Slots : Finish(j)
    \/ Tick
    \/ \E c \in Chats : \E arg \in CommandArgs : RemoveCourse(c, arg)
    \/ \E ok \in BOOLEAN : RemoveCourseReply(ok)

Spec == Init /\ [][Next]_vars

\* The program with the foreground commands /course and /check beside the
\* broadcast cycle, against a portal whose data does not change, started on
\* a store in which every subscriber has set an id and tracks something
FgInit ==
    /\ Init
    /\ DOMAIN subscriptions = Chats
    /\ \A c \in Chats : subscriptions[c].id_no # ""

FgNext ==
    \/ \E j \in Slots : Trigger(j)
    \/ \E j \in Slots : BeginItem(j)
    \/ \E j \in Slots : \E resp \in SteadyResponses("A") \cup SteadyResponses("B") :
          FetchReturn(j, resp)
    \/ \E j \in Slots : ReturnSnapshot(j)
    \/ \E j \in Slots : \E ok \in BOOLEAN : SendReturn(j, ok)
    \/ \E j \in Slots : \E ok \in BOOLEAN : FallbackReturn(j, ok)
    \/ \E j \in Slots : SleepReturn(j)
    \/ \E j \in Slots : Finish(j)
    \/ Tick
    \/ \E c \in Chats : \E arg \in CommandArgs : Course(c, arg)
    \/ \E c \in Chats : Check(c)
    \/ \E ok \in BOOLEAN : FgReplyReturn(ok)
    \/ \E resp \in SteadyResponses("A") \cup SteadyResponses("B") : FgFetchReturn(resp)
    \/ \E ok \in BOOLEAN : FgNoticeReturn(ok)
    \/ \E ok \in BOOLEAN : FgFailureReturn(ok)
    \/ \E ok \in BOOLEAN : FgStatusReturn(ok)
    \/ FgSleepReturn
    \/ \E ok \in BOOLEAN : FgFinalReturn(ok)

FgSpec == FgInit /\ [][FgNext]_vars

\* ------------------------------------------------------------------------
\* Properties of the broadcast cycle
\* ------------------------------------------------------------------------
Sending(job) == job.pc \in {"send", "fallback", "sleep"}

\* the entry of the current item's data key in the subscriber's map
HasEntry(job) ==
    LET info == job.items[job.idx - 1]
    IN  /\ info.chat_id \in DOMAIN subscriptions
        /\ get_data_key(info) \in DOMAIN subscriptions[info.chat_id].previous_data

Entry(job) ==
    LET info == job.items[job.idx - 1]
    IN  subscriptions[info.chat_id].previous_data[get_data_key(info)]

\* the item whose processing just ended: the loop has moved past it and the
\* next item has not begun
JustEnded(job) == job.pc = "loop" /\ job.idx = job.attempts + 1

\* C1: an item whose successful fetch returns the very snapshot stored as
\* previous for its data key gets no message in that cycle: no send_message
\* call is made or pending for it.
C1_NoMessageWithoutChange ==
    \A j \in Slots :
        (/\ jobs[j].outcome = "ok"
         /\ jobs[j].had_previous
         /\ jobs[j].current_sections = jobs[j].previous_sections)
        => (jobs[j].sends = 0 /\ ~Sending(jobs[j]))

C1_Witness ==
    \E j \in Slots :
        /\ JustEnded(jobs[j])
        /\ jobs[j].outcome = "ok"
        /\ jobs[j].had_previous
        /\ jobs[j].current_sections = jobs[j].previous_sections
        /\ jobs[j].current_sections # << >>
        /\ jobs[j].stored

\* C2: the first successful fetch of an item with no entry in the
\* subscriber's previous_data sends no notification.
C2_FirstFetchSilent ==
    \A j \in Slots :
        (jobs[j].outcome = "ok" /\ ~jobs[j].had_previous)
        => (jobs[j].sends = 0 /\ ~Sending(jobs[j]))

\* C3: once an item of a subscriber was blocked in a cycle, no request is
\* made for a later item of that subscriber in that cycle.
C3_NoFetchAfterBlock ==
    \A j \in Slots :
        jobs[j].pc = "fetch"
        => jobs[j].items[jobs[j].idx].chat_id \notin jobs[j].blocked

\* C4: a block on an item of one subscriber does not end the cycle: a cycle
\* in which an item was blocked, once over, has called
\* process_course_updates for every enumerated item and has persisted the
\* store.
C4_BlockedCycleRunsToEnd ==
    \A j \in Slots :
        (jobs[j].pc = "idle" /\ jobs[j].blocked # {})
        => /\ jobs[j].result = "completed"
           /\ jobs[j].attempts = Len(jobs[j].items)
           /\ jobs[j].saves = 1

\* C5: a fetch that fails with an error other than the block skips the item
\* only: nothing was sent for it, line 66 did not run and the map entry of
\* its key is what it was when the item began (or was removed by a command),
\* and the loop stands at the very next item with the cycle running.
C5_ErrorSkipsItemOnly ==
    \A j \in Slots :
        jobs[j].outcome = "error"
        => /\ jobs[j].sends = 0
           /\ ~jobs[j].stored
           /\ jobs[j].pc \in {"loop", "idle"}
           /\ jobs[j].pc = "loop"
              => /\ JustEnded(jobs[j])
                 /\ jobs[j].result = "running"
                 /\ HasEntry(jobs[j])
                    => /\ jobs[j].had_previous
                       /\ Entry(jobs[j]) = jobs[j].previous_sections
           /\ jobs[j].pc = "idle" => jobs[j].result = "completed"

\* an item of the first subscriber failed, its entry is untouched and a
\* further item of the same subscriber is about to be processed
C5_Witness ==
    \E j \in Slots :
        /\ JustEnded(jobs[j])
        /\ jobs[j].outcome = "error"
        /\ jobs[j].had_previous
        /\ HasEntry(jobs[j])
        /\ jobs[j].idx <= Len(jobs[j].items)
        /\ jobs[j].items[jobs[j].idx].chat_id = jobs[j].items[jobs[j].idx - 1].chat_id

\* C6: after every successful fetch the fetched snapshot is the map entry of
\* the item's key, also when the delivery of the notification failed.
C6_SnapshotAlwaysStored ==
    \A j \in Slots :
        jobs[j].outcome = "ok"
        => /\ JustEnded(jobs[j])
              => /\ jobs[j].stored
                 /\ HasEntry(jobs[j])
                 /\ Entry(jobs[j]) = jobs[j].current_sections
           /\ jobs[j].pc = "idle" => jobs[j].stored

\* C7: a delivery failure never leaves send_long_message.
C7_DeliveryFailureCaught ==
    \A j \in Slots : jobs[j].result # "delivery_error"

\* C8 as claimed: every cycle that has ended persisted the store exactly once.
C8_EveryCycleSavesOnce ==
    \A j \in Slots :
        (jobs[j].pc = "idle" /\ jobs[j].result # "none") => jobs[j].saves = 1

\* C8 amended: a cycle persists the store at most once and never while items
\* are still being processed; it persists exactly once when its loop ran to
\* the end, after every enumerated item was processed, and not at all when
\* it returned early for want of subscribers or items or was ended by an
\* exception.
C8_SavesOnceAfterLoop ==
    \A j \in Slots :
        /\ jobs[j].saves <= 1
        /\ jobs[j].pc # "idle" => jobs[j].saves = 0
        /\ jobs[j].result = "completed"
           => (jobs[j].saves = 1 /\ jobs[j].attempts = Len(jobs[j].items))
        /\ jobs[j].result = "returned"
           => (jobs[j].saves = 0 /\ jobs[j].items = << >>)
        /\ jobs[j].result \in {"delivery_error", "key_error"}
           => jobs[j].saves = 0
        /\ (jobs[j].result = "completed" /\ handler.pc = "none"
            /\ commandsRun = 0)
           => disk = subscriptions

\* a cycle with a failed item and a stored one ran to its end and saved
C8_Witness ==
    \E j \in Slots :
        /\ jobs[j].result = "completed"
        /\ jobs[j].saves = 1
        /\ Len(jobs[j].items) >= 2
        /\ jobs[j].outcome = "error"
        /\ disk = subscriptions
        /\ disk # << >>
        /\ \E c \in DOMAIN disk : DOMAIN disk[c].previous_data # {}

Tracked(prefs, key) ==
    \/ \E i \in DOMAIN prefs.courses : prefs.courses[i] = key
    \/ \E i \in DOMAIN prefs.sections :
          /\ prefs.sections[i].course \o ":sections" = key
          /\ prefs.sections[i].class_numbers # << >>

\* C10: once the cycle has finished, no subscriber's previous_data holds an
\* entry for a data key the subscriber no longer tracks.
C10_NoEntryForUntrackedKey ==
    (\A j \in Slots : jobs[j].pc = "idle")
    => \A c \in DOMAIN subscriptions :
          \A key \in DOMAIN subscriptions[c].previous_data :
              Tracked(subscriptions[c], key)

\* C13: a subscriber with no student id is skipped by the cycle: no item is
\* enumerated for them, so no request is made and nothing is sent or stored
\* on their behalf, and their previous_data stays as empty as it was.
C13_NoIdentityNoCycleWork ==
    /\ \A j \in Slots : \A i \in DOMAIN jobs[j].items :
          /\ jobs[j].items[i].student_id # ""
          /\ jobs[j].items[i].chat_id \in DOMAIN subscriptions
             => subscriptions[jobs[j].items[i].chat_id].id_no # ""
    /\ \A c \in DOMAIN subscriptions :
          subscriptions[c].id_no = "" => subscriptions[c].previous_data = << >>

\* a cycle ran to its end over the one item of the other subscriber while a
\* subscriber with no id tracks a course and a section
C13_Witness ==
    \E j \in Slots :
        /\ jobs[j].result = "completed"
        /\ jobs[j].saves = 1
        /\ jobs[j].stored
        /\ Len(jobs[j].items) = 1
        /\ \E c \in DOMAIN subscriptions :
              /\ subscriptions[c].id_no = ""
              /\ subscriptions[c].courses # << >>
              /\ subscriptions[c].sections # << >>

\* ------------------------------------------------------------------------
\* Properties of the foreground commands and of the fetcher
\* ------------------------------------------------------------------------
\* the handler in flight, or the one that ended last, is a foreground one
Foreground == handler.pc \in FgPcs

\* C11: a run over a subscriber's items in which a block occurs (a cycle or
\* /check) stops going through that subscriber's items and sends the
\* subscriber exactly one block notice.
C11_BlockStopsRunWithOneNotice ==
    /\ \A j \in Slots :
          /\ (jobs[j].outcome = "blocked" /\ jobs[j].pc \in {"loop", "idle"})
             => jobs[j].sends = 1
          /\ jobs[j].pc \in {"fetch", "send", "fallback", "sleep", "return"}
             => jobs[j].items[jobs[j].idx].chat_id \notin jobs[j].blocked
    /\ (Foreground /\ handler.pc = "fg_done" /\ handler.outcome = "blocked")
       => /\ handler.notices = 1
          /\ handler.attempts = handler.idx
          /\ handler.result = "blocked"

\* C12: a fetch that fails with an error other than the block is told to the
\* user exactly when the request was a foreground one: /course and /check
\* send the failure message for it and for nothing else, the broadcast cycle
\* sends nothing.
C12_FailureMessageOnlyInForeground ==
    /\ \A j \in Slots :
          jobs[j].outcome = "error"
          => (jobs[j].sends = 0 /\ ~Sending(jobs[j]))
    /\ Foreground
       => /\ handler.outcome = "error"
             => (handler.pc = "fg_failure" \/ handler.said = "failure")
          /\ (handler.pc = "fg_failure" \/ handler.said = "failure")
             => /\ handler.outcome = "error"
                /\ handler.response \in
                      {"httpOther", "timeout", "connect", "malformed"}

\* /check has sent the failure message for an item and goes on, after a
\* cycle in which an item failed has run to its end in silence
C12_Witness ==
    /\ Foreground
    /\ handler.cmd = "check"
    /\ handler.pc = "fg_sleep"
    /\ handler.outcome = "error"
    /\ handler.said = "failure"
    /\ \E j \in Slots :
          /\ jobs[j].outcome = "error"
          /\ jobs[j].result = "completed"

\* the key of the item a foreground handler is at, and of the item a cycle
\* is at
FgKey == get_cache_key(handler.items[handler.idx].course,
                       handler.items[handler.idx].student_id)

JobKey(j) == get_cache_key(jobs[j].items[jobs[j].idx].course,
                           jobs[j].items[jobs[j].idx].student_id)

\* this step begins an item: fetch_course_data is entered for it
FgBegins ==
    /\ handler.pc \in {"fg_reply", "fg_sleep"}
    /\ handler'.pc \in {"fg_status", "fg_fetch"}

JobBegins(j) == jobs[j].pc = "loop" /\ jobs'[j].pc \in {"fetch", "send", "return"}

\* this step is the return of a request with a 200
FgFetched == handler.pc = "fg_fetch" /\ handler'.outcome = "ok"

JobFetched(j) == jobs[j].pc = "fetch" /\ jobs'[j].outcome = "ok"

\* C14, in every state: an item answered by the cache has made no request,
\* an item the cache did not answer has made exactly one.
C14_RequestsByCacheAnswer ==
    /\ Foreground
       => /\ handler.fetch = "hit"
             => (handler.requests = 0 /\ handler.response = "none")
          /\ handler.fetch = "miss" => handler.requests = 1
    /\ \A j \in Slots :
          /\ jobs[j].fetch = "hit"
             => (jobs[j].pc # "fetch" /\ jobs[j].response = "none")
          /\ jobs[j].fetch = "miss"
             => (jobs[j].pc = "fetch" \/ jobs[j].response # "none")

\* C14, in every step: beginning an item with a valid cache entry starts no
\* request and leaves the cache as it is; a request that returns with a 200
\* stores the whole body under the item's key, whatever the filter, and
\* hands on the body filtered.
C14_CacheWrittenOnFetchOnly ==
    /\ (FgBegins /\ handler'.fetch = "hit")
       => (handler'.pc = "fg_status" /\ cache' = cache /\ puts' = puts)
    /\ \A j \in Slots :
          (JobBegins(j) /\ jobs'[j].fetch = "hit")
          => (cache' = cache /\ puts' = puts)
    /\ (FgFetched /\ CACHE_ENABLED)
       => /\ FgKey \in DOMAIN cache'
          /\ cache'[FgKey].data = Upstream(handler.items[handler.idx].course)
          /\ cache'[FgKey].timestamp = now
          /\ handler'.sections =
                SelectSeq(cache'[FgKey].data,
                          LAMBDA sec :
                             \/ handler.items[handler.idx].class_numbers = << >>
                             \/ sec.classNbr \in
                                   Range(handler.items[handler.idx].class_numbers))
    /\ \A j \in Slots :
          (JobFetched(j) /\ CACHE_ENABLED)
          => /\ JobKey(j) \in DOMAIN cache'
             /\ cache'[JobKey(j)].data = Upstream(jobs[j].items[jobs[j].idx].course)
             /\ cache'[JobKey(j)].timestamp = now

\* C14: a fetch that finds a valid cache entry makes no request and does not
\* write the cache; a fetch that misses makes exactly one request and, when
\* it succeeds, stores the full unfiltered snapshot in the cache even when a
\* filter was asked for.
C14_HitSkipsFetchMissFetchesOnce ==
    []C14_RequestsByCacheAnswer /\ [][C14_CacheWrittenOnFetchOnly]_vars

\* a filtered request missed the cache, fetched, and got one section back
\* while the cache holds the two sections of the course
C14_Witness ==
    /\ Foreground
    /\ CACHE_ENABLED
    /\ handler.pc = "fg_status"
    /\ handler.fetch = "miss"
    /\ handler.outcome = "ok"
    /\ handler.items[handler.idx].class_numbers = << 1 >>
    /\ Len(handler.sections) = 1
    /\ FgKey \in DOMAIN cache
    /\ Len(cache[FgKey].data) = 2

\* the key of the item a foreground handler begins in this step
FgBegunKey == get_cache_key(handler'.items[handler'.idx].course,
                            handler'.items[handler'.idx].student_id)

\* an entry for the key was put less than the time to live ago
Fresh(key) ==
    key \in DOMAIN cache /\ now - cache[key].timestamp < CACHE_TTL_SECONDS

\* C15, in every step with caching enabled: the get made when an item begins
\* returns the data put for the key and counts one hit when the entry was
\* put less than the time to live ago; it returns nothing, so that a request
\* follows, and counts one miss when the entry is older or the key was never
\* put; and nothing but a get moves the counters.
C15_GetCountsAndReturns ==
    /\ (FgBegins /\ CACHE_ENABLED)
       => IF Fresh(FgBegunKey)
          THEN /\ hits' = hits + 1 /\ misses' = misses
               /\ handler'.fetch = "hit"
               /\ cache[FgBegunKey].data =
                     Upstream(handler'.items[handler'.idx].course)
               /\ handler'.items[handler'.idx].class_numbers = << >>
                  => handler'.sections = cache[FgBegunKey].data
          ELSE /\ misses' = misses + 1 /\ hits' = hits
               /\ handler'.fetch = "miss"
               /\ handler'.pc = "fg_fetch"
    /\ \A j \in Slots :
          (JobBegins(j) /\ CACHE_ENABLED)
          => IF Fresh(JobKey(j))
             THEN /\ hits' = hits + 1 /\ misses' = misses
                  /\ jobs'[j].fetch = "hit"
                  /\ jobs[j].items[jobs[j].idx].class_numbers = << >>
                     => jobs'[j].current_sections = cache[JobKey(j)].data
             ELSE /\ misses' = misses + 1 /\ hits' = hits
                  /\ jobs'[j].fetch = "miss"
                  /\ jobs'[j].pc = "fetch"
    /\ (hits' # hits \/ misses' # misses)
       => /\ CACHE_ENABLED
          /\ FgBegins \/ \E j \in Slots : JobBegins(j)

\* C15: a get after a put for the same key within the time to live returns
\* the data that was put and adds one to hits; a get at or past the time to
\* live, or for a key never put, returns nothing and adds one to misses.
C15_GetAfterPut == [][C15_GetCountsAndReturns]_vars

\* a get returned the sections put for the key, after an earlier get for
\* the same key had missed because the entry was a full time to live old
C15_Witness ==
    /\ Foreground
    /\ handler.pc = "fg_status"
    /\ handler.fetch = "hit"
    /\ handler.items[handler.idx].class_numbers = << >>
    /\ handler.sections = cache[FgKey].data
    /\ handler.sections # << >>
    /\ hits = 1
    /\ now = cache[FgKey].timestamp
    /\ now >= CACHE_TTL_SECONDS
    /\ misses >= 2

\* C16, in every step: a step in which get runs, a hit or a miss on an
\* expired entry alike, leaves every key with its data and timestamp; the
\* cache changes only when a 200 is stored, and then only the entry of the
\* put key changes while no key is removed.
C16_OnlyPutChangesEntries ==
    /\ (FgBegins \/ \E j \in Slots : JobBegins(j)) => cache' = cache
    /\ (hits' # hits \/ misses' # misses) => cache' = cache
    /\ cache' # cache
       => /\ DOMAIN cache \subseteq DOMAIN cache'
          /\ \/ /\ FgFetched
                /\ \A k \in DOMAIN cache : k # FgKey => cache'[k] = cache[k]
                /\ DOMAIN cache' = DOMAIN cache \cup {FgKey}
             \/ \E j \in Slots :
                   /\ JobFetched(j)
                   /\ \A k \in DOMAIN cache :
                         k # JobKey(j) => cache'[k] = cache[k]
                   /\ DOMAIN cache' = DOMAIN cache \cup {JobKey(j)}

\* C16: get never removes or modifies a cache entry, an expired one
\* included; entries change only by being overwritten in put.
C16_GetLeavesEntries == [][C16_OnlyPutChangesEntries]_vars

\* a get has just missed on an entry past its time to live, and the entry
\* is still in the cache with the data and the timestamp of its put
C16_Witness ==
    /\ Foreground
    /\ handler.pc = "fg_fetch"
    /\ handler.fetch = "miss"
    /\ FgKey \in DOMAIN cache
    /\ now - cache[FgKey].timestamp >= CACHE_TTL_SECONDS
    /\ cache[FgKey].data = Upstream(handler.items[handler.idx].course)
    /\ misses >= 2

\* C17: after any sequence of put and get operations the total_entries of
\* the statistics is the number of distinct (course, identity) keys ever
\* put, and valid_entries plus expired_entries is total_entries.
C17_StatsCountKeysEverPut ==
    /\ get_stats.total_entries = Cardinality(puts)
    /\ get_stats.valid_entries + get_stats.expired_entries
          = get_stats.total_entries
    /\ get_stats.valid_entries >= 0
    /\ get_stats.expired_entries >= 0

\* two keys were put, one of them twice; one entry is past its time to live
\* and one is not, and gets have both hit and missed
C17_Witness ==
    /\ Cardinality(puts) = 2
    /\ get_stats.valid_entries = 1
    /\ get_stats.expired_entries = 1
    /\ hits >= 1
    /\ misses >= 3

\* the snapshot a fetch of the item returns when the portal is asked
Fetched(info) == FilterSections(Upstream(info.course), info.class_numbers)

\* C18: with caching disabled the cache is never read or written and every
\* fetch makes the request; against a portal whose data for a (course,
\* identity) does not change, every snapshot a fetch returns is the one the
\* request returns, with caching enabled or disabled alike, so that the two
\* configurations differ in the number of requests only.
C18_BypassChangesVolumeOnly ==
    /\ ~CACHE_ENABLED
       => /\ cache = << >> /\ puts = {}
          /\ hits = 0 /\ misses = 0
          /\ (Foreground /\ handler.fetch # "none")
             => (handler.fetch = "miss" /\ handler.requests = 1)
          /\ \A j \in Slots :
                jobs[j].fetch # "none"
                => /\ jobs[j].fetch = "miss"
                   /\ jobs[j].pc = "fetch" \/ jobs[j].response # "none"
    /\ (Foreground /\ handler.idx \in DOMAIN handler.items
                   /\ handler.outcome = "ok")
       => handler.sections = Fetched(handler.items[handler.idx])
    /\ \A j \in Slots :
          (jobs[j].pc \in {"send", "fallback", "return"}
             /\ jobs[j].outcome = "ok")
          => jobs[j].current_sections = Fetched(jobs[j].items[jobs[j].idx])

\* with caching disabled, /check has fetched the second item of a key whose
\* first item it fetched half a second before, by a request of its own
C18_Witness ==
    /\ ~CACHE_ENABLED
    /\ Foreground
    /\ handler.cmd = "check"
    /\ Len(handler.items) = 2
    /\ handler.idx = 2
    /\ FgKey = get_cache_key(handler.items[1].course,
                             handler.items[1].student_id)
    /\ handler.pc = "fg_status"
    /\ handler.requests = 1
    /\ handler.response = "http200"
    /\ handler.sections = << Sec("A", 1, 1, 1, 1) >>

\* C19: whenever a list of class numbers is handed to the fetch (the item
\* does not track the whole course) and the fetch succeeds, the result is
\* exactly the sections of the full snapshot whose class number is in the
\* list, in the snapshot's order; and the filtered request uses the cache
\* key of the request for all sections of the same course and identity.
C19_FilteredIsSubsequence ==
    (/\ Foreground
     /\ handler.idx \in DOMAIN handler.items
     /\ ~handler.items[handler.idx].track_all
     /\ handler.outcome = "ok")
    => LET info == handler.items[handler.idx]
       IN  /\ handler.sections =
                 SelectSeq(Upstream(info.course),
                           LAMBDA sec : sec.classNbr \in Range(info.class_numbers))
           /\ FgKey = get_cache_key(info.course, info.student_id)
           /\ CACHE_ENABLED
              => /\ FgKey \in DOMAIN cache
                 /\ cache[FgKey].data = Upstream(info.course)

\* C20: the two kinds of failure of a request reach the caller of
\* fetch_and_filter_data apart: a 503 always as the block, and every other
\* failure (another status than 200, a timeout, a connection error, a body
\* that cannot be decoded or has not the shape of a snapshot) as the error
\* outcome, never as the block.
C20_FailuresKeptApart ==
    \A j \in Slots :
       /\ jobs[j].response = "http503" => jobs[j].outcome = "blocked"
       /\ jobs[j].response \in {"httpOther", "timeout", "connect",
                                "malformed", "misshapen"}
          => jobs[j].outcome = "error"
       /\ jobs[j].outcome = "blocked" => jobs[j].response = "http503"

\* ------------------------------------------------------------------------
\* diff_courses and the order of compose_update_lines, called on their own
\* ------------------------------------------------------------------------
\* the section records the snapshots are made of: two labels, three class
\* numbers or none, and an enrolled count of 0, 1 or none
Sections ==
    { Sec("A", label, nbr, enr, 1) :
        label \in {1, 2}, nbr \in {1, 2, 3, Missing}, enr \in {0, 1, Missing} }

\* every list of at most MaxSections section records
Snapshots == UNION { [1..n -> Sections] : n \in 0..MaxSections }

\* nothing but the call examined goes on: no subscriber, no cycle, no command
Unstarted ==
    /\ subscriptions = << >>
    /\ disk = << >>
    /\ cache = << >>
    /\ hits = 0
    /\ misses = 0
    /\ now = 0
    /\ jobs = [j \in Slots |-> IdleJob]
    /\ handler = NoHandler
    /\ cyclesRun = 0
    /\ commandsRun = 0
    /\ CACHE_ENABLED = TRUE
    /\ puts = {}

pipeline == << subscriptions, disk, cache, hits, misses, now, jobs, handler,
               cyclesRun, commandsRun, CACHE_ENABLED, puts >>

\* process_course_updates is about to diff old against new
DiffInit ==
    /\ Unstarted
    /\ call \in { [fn |-> "diff_courses", old |-> old, new |-> new,
                    changes |-> diff_courses(<< >>, << >>),
                    sorted_changes |-> << >>, at |-> "called"] :
                   old \in Snapshots, new \in Snapshots }

\* notifier.py line 173: changes = diff_courses(previous_sections,
\* current_sections)
DiffCourses ==
    /\ call.fn = "diff_courses"
    /\ call.at = "called"
    /\ call' = [call EXCEPT !.changes = diff_courses(call.old, call.new),
                            !.at = "returned"]
    /\ UNCHANGED pipeline

\* notifier.py lines 175-181: with any change, compose_update_lines renders
\* the changes, the enrollment changes in sorted order
ComposeUpdateLines ==
    /\ call.fn = "diff_courses"
    /\ call.at = "returned"
    /\ AnyChanges(call.changes)
    /\ call' = [call EXCEPT
                  !.sorted_changes = sorted_changes(call.changes.enrollment),
                  !.at = "composed"]
    /\ UNCHANGED pipeline

DiffNext == DiffCourses \/ ComposeUpdateLines

DiffSpec == DiffInit /\ [][DiffNext]_vars

\* the data of the portal as the spec describes it: every section has its
\* class number, and no two sections of a snapshot share one
WellFormed(snapshot) ==
    /\ \A i \in DOMAIN snapshot : snapshot[i].classNbr # Missing
    /\ \A i, k \in DOMAIN snapshot :
          snapshot[i].classNbr = snapshot[k].classNbr => i = k

\* the diff has returned for two snapshots of the portal
DiffReturned == /\ call.fn = "diff_courses"
           /\ call.at # "called"
           /\ WellFormed(call.old)
           /\ WellFormed(call.new)

\* the class numbers of a snapshot
Numbers(snapshot) == { snapshot[i].classNbr : i \in DOMAIN snapshot }

\* C21: the added list of the diff is exactly the sections of current whose
\* class number does not occur in previous, in current's order, and the
\* removed list exactly the sections of previous whose class number does not
\* occur in current, in previous's order.
C21_AddedAndRemoved ==
    DiffReturned
    => /\ call.changes.added =
             SelectSeq(call.new, LAMBDA sec : sec.classNbr \notin Numbers(call.old))
       /\ call.changes.removed =
             SelectSeq(call.old, LAMBDA sec : sec.classNbr \notin Numbers(call.new))

\* of two sections each in the one snapshot the first is added and kept, and
\* of two in the other the second is removed
C21_Witness ==
    /\ DiffReturned
    /\ Len(call.old) = 2 /\ Len(call.new) = 2
    /\ call.changes.added = << call.new[1] >>
    /\ call.changes.removed = << call.old[2] >>

\* the class numbers found in both snapshots whose enrolled counts are both
\* integers and differ
Changed(old, new) ==
    { nbr \in Numbers(old) \cap Numbers(new) :
        \E i \in DOMAIN old : \E k \in DOMAIN new :
           /\ old[i].classNbr = nbr /\ new[k].classNbr = nbr
           /\ old[i].enrolled \in Nat /\ new[k].enrolled \in Nat
           /\ old[i].enrolled # new[k].enrolled }

\* C22: the enrollment list of the diff has exactly one entry, of the
\* section with its old and its new enrolled count, for each class number
\* present in both snapshots whose enrolled counts are both integers and
\* differ, and no entry otherwise: none for a section with the same count
\* and another field changed, none for a count that is missing or not an
\* integer on either side.
C22_EnrollmentChanges ==
    DiffReturned
    => LET enrollment == call.changes.enrollment
       IN  /\ { enrollment[j].section.classNbr : j \in DOMAIN enrollment }
                = Changed(call.old, call.new)
           /\ Len(enrollment) = Cardinality(Changed(call.old, call.new))
           /\ \A j \in DOMAIN enrollment :
                 /\ enrollment[j].section \in Range(call.new)
                 /\ \E i \in DOMAIN call.old :
                       /\ call.old[i].classNbr = enrollment[j].section.classNbr
                       /\ call.old[i].enrolled = enrollment[j].old_enrolled
                 /\ enrollment[j].new_enrolled = enrollment[j].section.enrolled

\* of two sections found in both snapshots, one went from 0 to 1 enrolled
\* and is the one entry; the other kept its count and changed its label, or
\* lost its count, and has none
C22_Witness ==
    /\ DiffReturned
    /\ Len(call.old) = 2 /\ Len(call.new) = 2
    /\ Numbers(call.old) = Numbers(call.new)
    /\ Len(call.changes.enrollment) = 1
    /\ call.changes.enrollment[1].old_enrolled = 0
    /\ call.changes.enrollment[1].new_enrolled = 1
    /\ \E i, k \in 1..2 :
          /\ call.old[i].classNbr = call.new[k].classNbr
          /\ call.old[i].enrolled = 1
          /\ \/ call.new[k].enrolled = Missing
             \/ /\ call.new[k].enrolled = 1
                /\ call.new[k].section # call.old[i].section

\* C23: for every snapshot X, of whatever shape, the diff of X against X has
\* an empty added list, an empty removed list and an empty enrollment list.
C23_DiffOfSameIsEmpty ==
    (/\ call.fn = "diff_courses"
     /\ call.at # "called"
     /\ call.old = call.new)
    => /\ call.changes.added = << >>
       /\ call.changes.removed = << >>
       /\ call.changes.enrollment = << >>
       /\ call.at = "returned"

\* a snapshot of two sections with their class numbers and enrolled counts
\* was diffed against itself, and nothing is rendered
C23_Witness ==
    /\ DiffReturned
    /\ call.old = call.new
    /\ Len(call.old) = 2
    /\ \A i \in 1..2 : call.old[i].enrolled \in Nat
    /\ ~AnyChanges(call.changes)
    /\ ~ENABLED ComposeUpdateLines

\* C24: for every snapshot S the diff of the empty snapshot against S has S
\* as its added list, and the diff of S against the empty snapshot has S as
\* its removed list: the same sections in the same order.
C24_DiffAgainstEmpty ==
    DiffReturned
    => /\ call.old = << >>
          => (call.changes.added = call.new /\ call.changes.removed = << >>)
       /\ call.new = << >>
          => (call.changes.removed = call.old /\ call.changes.added = << >>)
       /\ (call.old = << >> \/ call.new = << >>)
          => call.changes.enrollment = << >>

\* the first fetch of a course: nothing stored before, two sections now, the
\* higher class number first, and both are added in that order
C24_Witness ==
    /\ DiffReturned
    /\ call.old = << >>
    /\ Len(call.new) = 2
    /\ call.new[1].classNbr > call.new[2].classNbr
    /\ call.changes.added = call.new

\* a list of enrollment changes is in ascending order of (course, section
\* label)
Ascending(list) ==
    \A j, k \in DOMAIN list : j < k => KeyLeq(list[j], list[k])

\* C25 as stated: the enrollment list of the result the diff returns is
\* sorted ascending by (course, section label).
C25_DiffResultSorted ==
    DiffReturned => Ascending(call.changes.enrollment)

\* where a section stands in a snapshot
PlaceIn(snapshot, sec) == CHOOSE i \in DOMAIN snapshot : snapshot[i] = sec

\* C25, amended: the enrollment list of the result the diff returns is in
\* the order of the current snapshot; it is compose_update_lines that puts
\* the same entries in ascending order of (course, section label) to render
\* them.
C25_RenderedSorted ==
    /\ DiffReturned
       => \A j, k \in DOMAIN call.changes.enrollment :
             j < k => PlaceIn(call.new, call.changes.enrollment[j].section)
                        < PlaceIn(call.new, call.changes.enrollment[k].section)
    /\ (call.fn = "diff_courses" /\ call.at = "composed")
       => /\ Ascending(call.sorted_changes)
          /\ Len(call.sorted_changes) = Len(call.changes.enrollment)
          /\ Range(call.sorted_changes) = Range(call.changes.enrollment)

\* two enrollment changes that the diff returned with the higher label
\* first were rendered with the lower label first
C25_Witness ==
    /\ DiffReturned
    /\ call.at = "composed"
    /\ Len(call.changes.enrollment) = 2
    /\ ~Ascending(call.changes.enrollment)
    /\ call.sorted_changes = << call.changes.enrollment[2],
                                call.changes.enrollment[1] >>

\* ------------------------------------------------------------------------
\* send_long_message called on its own, its texts character by character
\* ------------------------------------------------------------------------
\* A text is a sequence of characters.  A character is Newline (white
\* space), LabelChar (a character of a title, of a part label or of the
\* fallback message) or the number i >= 1 of the block it belongs to.
Newline == 0
LabelChar == 0 - 2

\* the text of n characters c
Rep(c, n) == [k \in 1..n |-> c]

\* a block as the formatter hands it over: visible characters, and with nl
\* the line feed that format_section ends its text with
Blocks ==
    { [len |-> len, nl |-> nl] :
        len \in 0..msg_limit, nl \in BOOLEAN } \ { [len |-> msg_limit, nl |-> TRUE] }

\* the text of the i-th block
TextOf(i, block) ==
    Rep(i, block.len) \o (IF block.nl THEN << Newline >> ELSE << >>)

RECURSIVE Strip(_)
\* str.strip()
Strip(text) ==
    IF text = << >> THEN text
    ELSE IF Head(text) = Newline THEN Strip(Tail(text))
    ELSE IF text[Len(text)] = Newline THEN Strip(SubSeq(text, 1, Len(text) - 1))
    ELSE text

RECURSIVE PackTextSplitting(_, _, _, _)
\* a packing that fills every chunk to the limit and carries the rest of the
\* line over to the next chunk
PackTextSplitting(text_lines, i, chunks, current_chunk) ==
    IF i > Len(text_lines)
    THEN IF current_chunk # << >> THEN Append(chunks, Strip(current_chunk))
         ELSE chunks
    ELSE LET line == TextOf(i, text_lines[i])
             line_with_separators ==
                (IF current_chunk # << >> THEN << Newline, Newline >> ELSE << >>)
                \o line
             room == msg_limit - Len(current_chunk)
         IN  IF Len(current_chunk) + Len(line_with_separators) > msg_limit
             THEN PackTextSplitting(text_lines, i + 1,
                     Append(chunks,
                            current_chunk \o SubSeq(line_with_separators, 1, room)),
                     SubSeq(line_with_separators, room + 1,
                            Len(line_with_separators)))
             ELSE PackTextSplitting(text_lines, i + 1, chunks,
                                    current_chunk \o line_with_separators)

RECURSIVE PackText(_, _, _, _)
\* send_long_message lines 24-36: the loop over text_lines from the i-th
\* line on, and the last chunk
PackText(text_lines, i, chunks, current_chunk) ==
    IF i > Len(text_lines)
    THEN IF current_chunk # << >> THEN Append(chunks, Strip(current_chunk))
         ELSE chunks
    ELSE LET line == TextOf(i, text_lines[i])
             line_with_separators ==
                (IF current_chunk # << >> THEN << Newline, Newline >> ELSE << >>)
                \o line
         IN  IF Len(current_chunk) + Len(line_with_separators) > msg_limit
             THEN PackText(text_lines, i + 1,
                           Append(chunks, Strip(current_chunk)), line)
             ELSE PackText(text_lines, i + 1, chunks,
                           current_chunk \o line_with_separators)

\* lines 39-43: "*{title}* (part {idx}/{len(chunks)})\n\n" when there is more
\* than one chunk and a title, of n chunks in all
header(title, n) ==
    IF n > 1 /\ title # << >>
    THEN title \o Rep(LabelChar, part_label_len) \o << Newline, Newline >>
    ELSE << >>

\* lines 38-44: the full_message of every chunk
full_messages(text_lines, title) ==
    LET chunks == PackText(text_lines, 1, << >>, << >>)
    IN  [idx \in DOMAIN chunks |-> header(title, Len(chunks)) \o chunks[idx]]

\* line 60: the text sent when the first chunk could not be
fallback_message(title) == Rep(LabelChar, fallback_text_len) \o title

\* send_long_message is called with a list of blocks and a title
ChunkInit ==
    /\ Unstarted
    /\ call \in { [fn |-> "send_long_message", text_lines |-> text_lines,
                    title |-> Rep(LabelChar, t), full_messages |-> << >>,
                    idx |-> 0, handed |-> << >>, at |-> "called"] :
                   text_lines \in UNION { [1..n -> Blocks] : n \in 0..MaxBlocks },
                   t \in 0..MaxTitle }

\* lines 23-37: the chunks are built; with none there is nothing to send
PackChunks ==
    /\ call.fn = "send_long_message"
    /\ call.at = "called"
    /\ LET messages == full_messages(call.text_lines, call.title)
       IN  call' = [call EXCEPT
                       !.full_messages = messages,
                       !.idx = 1,
                       !.at = IF messages = << >> THEN "returned" ELSE "sending"]
    /\ UNCHANGED pipeline

\* lines 45-63: the chunk at idx is handed to send_message, which returns,
\* and the next chunk follows after the pause, or raises, and the loop ends,
\* for the first chunk after the fallback message
SendChunk(ok) ==
    /\ call.fn = "send_long_message"
    /\ call.at = "sending"
    /\ LET sent == [call EXCEPT
                       !.handed = Append(@, call.full_messages[call.idx])]
       IN  call' =
             IF ok
             THEN IF call.idx < Len(call.full_messages)
                  THEN [sent EXCEPT !.idx = call.idx + 1]
                  ELSE [sent EXCEPT !.at = "returned"]
             ELSE IF call.idx = 1 THEN [sent EXCEPT !.at = "fallback"]
             ELSE [sent EXCEPT !.at = "returned"]
    /\ UNCHANGED pipeline

\* lines 58-62: the fallback message is handed to send_message, which returns
\* or raises out of send_long_message
SendFallback(ok) ==
    /\ call.fn = "send_long_message"
    /\ call.at = "fallback"
    /\ call' = [call EXCEPT
                  !.handed = Append(@, fallback_message(call.title)),
                  !.at = IF ok THEN "returned" ELSE "raised"]
    /\ UNCHANGED pipeline

ChunkNext ==
    \/ PackChunks
    \/ \E ok \in BOOLEAN : SendChunk(ok)
    \/ \E ok \in BOOLEAN : SendFallback(ok)

ChunkSpec == ChunkInit /\ [][ChunkNext]_vars

\* C26: every message that send_long_message hands to send_message is at
\* most msg_limit characters long, the part i/N label counted when there is
\* one, for any list of blocks each of at most msg_limit characters and any
\* title.
C26_MessagesWithinLimit ==
    call.fn = "send_long_message"
    => \A k \in DOMAIN call.handed : Len(call.handed[k]) <= msg_limit

\* the text occurs in the message, all of it and in one piece
Occurs(text, message) ==
    \E o \in 0..(Len(message) - Len(text)) :
       SubSeq(message, o + 1, o + Len(text)) = text

\* the messages a block of the call occurs in
Carriers(text) ==
    { m \in DOMAIN call.full_messages : Occurs(text, call.full_messages[m]) }

\* the blocks that have characters of theirs in a message
BlocksIn(message) == { c \in Range(message) : c >= 1 }

RECURSIVE Sum(_, _)
Sum(f, S) ==
    IF S = {} THEN 0
    ELSE LET x == CHOOSE y \in S : TRUE IN f[x] + Sum(f, S \ {x})

\* the chunks of the call have been built
Packed == call.fn = "send_long_message" /\ call.at # "called"

Visible == { i \in DOMAIN call.text_lines : call.text_lines[i].len >= 1 }

\* the place of the first character of block i in a message that has one
FirstOf(i, message) ==
    CHOOSE o \in DOMAIN message :
       message[o] = i /\ \A q \in 1..(o - 1) : message[q] # i

ItemsBuilt ==
    UNION { Range(jobs[j].items) : j \in Slots }
    \cup (IF Foreground THEN Range(handler.items) ELSE {})

\* C28: every tracking item built by the cycle, by /check or by /course that
\* does not track the whole course (track_all is false) has a list of class
\* numbers that is not empty and holds positive integers only.
C28_SpecificItemsHaveNumbers ==
    \A info \in ItemsBuilt :
       ~info.track_all
       => /\ info.class_numbers # << >>
          /\ \A k \in DOMAIN info.class_numbers : info.class_numbers[k] > 0

\* this step is one of a command handler
FgStep == handler' # handler

\* C29, in every step: no step of /course or /check, whether the fetch
\* succeeds, fails or is blocked, changes the preferences of any subscriber,
\* the previous snapshots in them included, in memory or on disk; the
\* previous snapshots change only where a cycle stores what it fetched.
C29_StatusLeavesPrevious ==
    /\ FgStep => (subscriptions' = subscriptions /\ disk' = disk)
    /\ subscriptions' # subscriptions
       => \E j \in Slots : jobs[j].pc = "return" /\ jobs'[j].stored

\* C29: the status paths /course and /check never write a subscriber's
\* previous snapshots, so that a check by hand never takes away a change
\* that the next cycle would report.
C29_StatusPathsNeverWritePrevious == [][C29_StatusLeavesPrevious]_vars

\* before any cycle, a command has shown sections that differ from the
\* previous snapshot stored for them and has ended; the previous snapshot
\* is still the stored one
C29_Witness ==
    /\ handler.pc = "fg_done"
    /\ handler.result = "completed"
    /\ handler.said = "status"
    /\ handler.idx \in DOMAIN handler.items
    /\ cyclesRun = 0
    /\ LET info == handler.items[handler.idx]
           previous_data == subscriptions[info.chat_id].previous_data
       IN  /\ get_data_key(info) \in DOMAIN previous_data
           /\ previous_data[get_data_key(info)] # handler.sections
           /\ previous_data[get_data_key(info)] # << >>
           /\ subscriptions = disk

\* this step is the return of a request that was blocked or failed
JobFailed(j) ==
    jobs[j].pc = "fetch" /\ jobs'[j].outcome \in {"blocked", "error"}

FgFailed ==
    handler.pc = "fg_fetch" /\ handler'.outcome \in {"blocked", "error"}

\* C30, in every state: an item of a cycle whose fetch was blocked or failed
\* has not had its snapshot stored.
C30_FailedItemNotStored ==
    \A j \in Slots :
       jobs[j].outcome \in {"blocked", "error"}
       => (~jobs[j].stored /\ jobs[j].pc \notin {"return", "send", "fallback"})

\* C30, in every step: the return of a blocked or failed request leaves the
\* cache with the entries, data and timestamps it had and leaves every
\* subscriber's previous snapshots as they were, in memory and on disk; in a
\* cycle the loop goes on to the next item without the store.
C30_FailedFetchFrame ==
    /\ (FgFailed \/ \E j \in Slots : JobFailed(j))
       => /\ cache' = cache
          /\ puts' = puts
          /\ subscriptions' = subscriptions
          /\ disk' = disk
    /\ \A j \in Slots :
          JobFailed(j)
          => /\ jobs'[j].pc = "loop"
             /\ jobs'[j].idx = jobs[j].idx + 1
             /\ ~jobs'[j].stored

Unstored(info) ==
    /\ info.chat_id \in DOMAIN subscriptions
    /\ get_data_key(info) \notin DOMAIN subscriptions[info.chat_id].previous_data

\* the second run of broadcast_updates has ended, no command came in between
\* and, the cache being on, its counters show that the first run had begun
\* every item of the same enumeration: an item still without a stored
\* snapshot was blocked or failed in the first run
EndedAfterFailedCycle(j) ==
    /\ cyclesRun = 2
    /\ commandsRun = 0
    /\ CACHE_ENABLED
    /\ jobs[j].pc = "idle"
    /\ jobs[j].result \notin {"none", "returned"}
    /\ ~jobs[j].skipped
    /\ hits + misses - jobs[j].attempts = Len(jobs[j].items)

\* C31: an item that was blocked or failed in one cycle is fetched again in
\* the next cycle: once the next cycle is over, process_course_updates has
\* been called in it for every item that the earlier cycle left without a
\* stored snapshot.
C31_FailedItemFetchedNextCycle ==
    \A j \in Slots :
        EndedAfterFailedCycle(j)
        => \A i \in DOMAIN jobs[j].items :
              Unstored(jobs[j].items[i]) => i <= jobs[j].attempts


\* ------------------------------------------------------------------------
\* bot/commands.py: /stop, with StorageService.delete
\* ------------------------------------------------------------------------
\* StorageService.delete: the subscriber's entry leaves the dict the cycle
\* reads, and the file is written
delete(subs, chat_id) == [c \in (DOMAIN subs) \ {chat_id} |-> subs[c]]

\* /stop up to the await of its reply
Stop(chat_id) ==
    /\ Quiescent
    /\ handler.pc = "none"
    /\ commandsRun < MaxCommands
    /\ commandsRun' = commandsRun + 1
    /\ IF chat_id \in DOMAIN subscriptions
       THEN /\ subscriptions' = delete(subscriptions, chat_id)
            /\ disk' = Saved(subscriptions')
            /\ handler' = [pc |-> "stop_reply", chat |-> chat_id,
                           removed |-> TRUE]
       ELSE /\ UNCHANGED << subscriptions, disk >>
            /\ handler' = [pc |-> "stop_reply", chat |-> chat_id,
                           removed |-> FALSE]
    /\ UNCHANGED << CACHE_ENABLED, puts >>
    /\ UNCHANGED << cache, hits, misses, now, jobs, cyclesRun >>
    /\ UNCHANGED call

\* the reply of /stop returns or raises: the handler ends either way
StopReply(ok) ==
    /\ Quiescent
    /\ handler.pc = "stop_reply"
    /\ handler' = NoHandler
    /\ UNCHANGED << CACHE_ENABLED, puts >>
    /\ UNCHANGED << subscriptions, disk, cache, hits, misses, now, jobs,
                    cyclesRun, commandsRun >>
    /\ UNCHANGED call

\* the broadcast cycle with /stop coming in at its awaits
StopNext ==
    \/ \E j \in Slots : Trigger(j)
    \/ TriggerSkipped
    \/ \E j \in Slots : BeginItem(j)
    \/ \E j \in Slots : \E resp \in Responses("A") \cup Responses("B") :
          FetchReturn(j, resp)
    \/ \E j \in Slots : ReturnSnapshot(j)
    \/ \E j \in Slots : \E ok \in BOOLEAN : SendReturn(j, ok)
    \/ \E j \in Slots : \E ok \in BOOLEAN : FallbackReturn(j, ok)
    \/ \E j \in Slots : SleepReturn(j)
    \/ \E j \in Slots : Finish(j)
    \/ Tick
    \/ \E c \in Chats : Stop(c)
    \/ \E ok \in BOOLEAN : StopReply(ok)

StopSpec == Init /\ [][StopNext]_vars

\* an item of the cycle belongs to a subscriber who is no longer in the store
HoldsDeleted(job) ==
    \E i \in DOMAIN job.items : job.items[i].chat_id \notin DOMAIN subscriptions

\* C32: a cycle that enumerated the items of a subscriber whom /stop then
\* deleted still completes: once over (cycles ended by a failed delivery
\* left aside), it has called process_course_updates for every enumerated
\* item and has persisted the store at its end.
C32_CycleCompletesAfterStop ==
    \A j \in Slots :
        (/\ jobs[j].pc = "idle"
         /\ jobs[j].result \notin {"none", "returned", "delivery_error"}
         /\ HoldsDeleted(jobs[j]))
        => /\ jobs[j].result = "completed"
           /\ jobs[j].attempts = Len(jobs[j].items)
           /\ jobs[j].saves = 1


\* ------------------------------------------------------------------------
\* bot/commands.py: /addcourse
\* ------------------------------------------------------------------------
RECURSIVE sorted_numbers(_)
\* list.sort() on a list of distinct class numbers, given as their set
sorted_numbers(S) ==
    IF S = {} THEN << >>
    ELSE LET m == CHOOSE x \in S : \A y \in S : x <= y
         IN  << m >> \o sorted_numbers(S \ {m})

\* list.sort() on a list of distinct course codes, given as their set
sorted_courses(S) ==
    LET all == << "A", "B" >>
        keep == SelectIdx(Len(all), [i \in DOMAIN all |-> all[i] \in S], 1)
    IN  [j \in DOMAIN keep |-> all[keep[j]]]

\* StorageService.get: the preferences of a chat, created when there are none
StorageGet(subs, chat_id) ==
    IF chat_id \in DOMAIN subs THEN subs
    ELSE [c \in (DOMAIN subs) \cup {chat_id} |->
             IF c = chat_id THEN DefaultPrefs ELSE subs[c]]

\* lines 164-165: track a whole course
AddWholeCourse(prefs, course) ==
    [prefs EXCEPT !.courses = sorted_courses(Range(@) \cup {course})]

\* lines 172-180: track one more class number of a course; setdefault puts a
\* new course at the end of the dict
AddSection(prefs, course, class_number) ==
    LET numbers == sorted_numbers(
                      Range(SectionsGet(prefs.sections, course))
                         \cup {class_number})
    IN  [prefs EXCEPT !.sections =
            IF SectionsHas(prefs.sections, course)
            THEN SectionsPut(prefs.sections, course, numbers)
            ELSE Append(prefs.sections, SectionsOf(course, numbers))]

\* append and sort work on the list object that the items of a running
\* cycle hold
Listed(job, chat_id, course, class_number) ==
    [job EXCEPT
        !.items = [i \in DOMAIN job.items |->
                     IF /\ i \in job.shared
                        /\ job.items[i].chat_id = chat_id
                        /\ job.items[i].course = course
                     THEN [job.items[i] EXCEPT !.class_numbers =
                              sorted_numbers(Range(@) \cup {class_number})]
                     ELSE job.items[i]]]

\* the arguments of /addcourse and /removecourse
EditArgs == CommandArgs \cup { << "A", "2" >> }

\* /addcourse up to the await of its reply: every path ends in one reply, and
\* storage.update has saved before it when something was added; the handler
\* keeps its locals and how many times the job had been triggered by then
AddCourse(chat_id, arg) ==
    /\ Quiescent
    /\ handler.pc = "none"
    /\ commandsRun < MaxCommands
    /\ commandsRun' = commandsRun + 1
    /\ LET parsed == parse_course_arg(arg)
           course == parsed.course
           class_number == parsed.class_number
           subs == StorageGet(subscriptions, chat_id)
           prefs == subs[chat_id]
           replying(added) ==
               handler' = [pc |-> "add_reply", chat |-> chat_id,
                           removed |-> FALSE, added |-> added,
                           course |-> course, class_number |-> class_number,
                           cycles |-> cyclesRun]
       IN  IF ~parsed.ok
           THEN /\ subscriptions' = subs
                /\ replying(FALSE)
                /\ UNCHANGED << disk, jobs >>
           ELSE IF class_number = Missing
                THEN IF Contains(prefs.courses, course)
                     THEN /\ subscriptions' = subs
                          /\ replying(FALSE)
                          /\ UNCHANGED << disk, jobs >>
                     ELSE /\ subscriptions' = [subs EXCEPT ![chat_id] =
                                 AddWholeCourse(prefs, course)]
                          /\ disk' = Saved(subscriptions')
                          /\ replying(TRUE)
                          /\ jobs' = jobs
                ELSE IF Contains(SectionsGet(prefs.sections, course),
                                 class_number)
                     THEN /\ subscriptions' = subs
                          /\ replying(FALSE)
                          /\ UNCHANGED << disk, jobs >>
                     ELSE /\ subscriptions' = [subs EXCEPT ![chat_id] =
                                 AddSection(prefs, course, class_number)]
                          /\ disk' = Saved(subscriptions')
                          /\ replying(TRUE)
                          /\ jobs' = [j \in Slots |->
                                Listed(jobs[j], chat_id, course, class_number)]
    /\ UNCHANGED << CACHE_ENABLED, puts >>
    /\ UNCHANGED << cache, hits, misses, now, cyclesRun >>
    /\ UNCHANGED call

\* the reply of /addcourse returns or raises: the handler ends either way
AddCourseReply(ok) ==
    /\ Quiescent
    /\ handler.pc = "add_reply"
    /\ handler' = NoHandler
    /\ UNCHANGED << CACHE_ENABLED, puts >>
    /\ UNCHANGED << subscriptions, disk, cache, hits, misses, now, jobs,
                    cyclesRun, commandsRun >>
    /\ UNCHANGED call


\* ------------------------------------------------------------------------
\* The cycle with /addcourse and /removecourse, against a portal whose data
\* does not change
\* ------------------------------------------------------------------------
\* stores in which subscriber 1 tracks class numbers of course A: with the
\* snapshot an earlier cycle stored for them, or before any cycle ran
EditStores ==
    { [c \in Chats |->
         IF c = 1
         THEN Prefs(IdOf(1), << >>, << SectionsOf("A", numbers) >>,
                    IF stored
                    THEN [k \in {"A:sections"} |->
                             FilterSections(Upstream("A"), numbers)]
                    ELSE << >>)
         ELSE Prefs(IdOf(c), << "B" >>, << >>, << >>)] :
        numbers \in { << 1 >>, << 1, 2 >> }, stored \in BOOLEAN }

EditInit ==
    /\ subscriptions \in EditStores
    /\ disk = subscriptions
    /\ cache = << >>
    /\ hits = 0
    /\ misses = 0
    /\ now = 0
    /\ jobs = [j \in Slots |-> IdleJob]
    /\ handler = NoHandler
    /\ cyclesRun = 0
    /\ commandsRun = 0
    /\ CACHE_ENABLED \in BOOLEAN
    /\ puts = {}
    /\ call = NoCall

EditNext ==
    \/ \E j \in Slots : Trigger(j)
    \/ TriggerSkipped
    \/ \E j \in Slots : BeginItem(j)
    \/ \E j \in Slots : \E resp \in SteadyResponses("A") \cup SteadyResponses("B") :
          FetchReturn(j, resp)
    \/ \E j \in Slots : ReturnSnapshot(j)
    \/ \E j \in Slots : \E ok \in BOOLEAN : SendReturn(j, ok)
    \/ \E j \in Slots : \E ok \in BOOLEAN : FallbackReturn(j, ok)
    \/ \E j \in Slots : SleepReturn(j)
    \/ \E j \in Slots : Finish(j)
    \/ Tick
    \/ \E c \in Chats : \E arg \in EditArgs : AddCourse(c, arg)
    \/ \E ok \in BOOLEAN : AddCourseReply(ok)
    \/ \E c \in Chats : \E arg \in EditArgs : RemoveCourse(c, arg)
    \/ \E ok \in BOOLEAN : RemoveCourseReply(ok)

EditSpec == EditInit /\ [][EditNext]_vars


\* ------------------------------------------------------------------------
\* A changed set of class numbers and the stored snapshot
\* ------------------------------------------------------------------------
\* the instance stands in process_course_updates behind a successful fetch
\* for an item of class numbers, filtered by the numbers the item holds now
DiffedSpecific(job) ==
    /\ job.pc \in {"send", "fallback", "sleep", "return"}
    /\ job.outcome = "ok"
    /\ ~job.items[job.idx].track_all
    /\ job.items[job.idx].class_numbers # << >>
    /\ job.current_sections =
          FilterSections(Upstream(job.items[job.idx].course),
                         job.items[job.idx].class_numbers)

\* send_long_message was called for the item
Notified(job) == Sending(job) \/ job.sends >= 1

\* the instance was triggered after the /addcourse whose reply is pending
\* had added class number N for the item it stands at
AfterAddedNumber(job) ==
    /\ handler.pc = "add_reply"
    /\ handler.added
    /\ handler.class_number # Missing
    /\ handler.cycles < cyclesRun
    /\ ~job.skipped
    /\ job.items[job.idx].chat_id = handler.chat
    /\ job.items[job.idx].course = handler.course

\* C33 as claimed: after /addcourse COURSE:N beside other tracked numbers of
\* the course, the next cycle that fetches the item successfully and finds a
\* stored snapshot reports section N as added and sends a notification,
\* with the upstream data unchanged.
C33_AddedNumberAlwaysReported ==
    \A j \in Slots :
        (/\ DiffedSpecific(jobs[j])
         /\ AfterAddedNumber(jobs[j])
         /\ jobs[j].had_previous
         /\ Len(jobs[j].items[jobs[j].idx].class_numbers) >= 2)
        => /\ handler.class_number
                 \in Numbers(diff_courses(jobs[j].previous_sections,
                                          jobs[j].current_sections).added)
           /\ Notified(jobs[j])


\* a command has just run up to its reply
CommandStep ==
    /\ handler.pc = "none"
    /\ handler'.pc \in {"reply", "add_reply"}

\* the step of a command that leaves a subscriber with class numbers of a
\* course leaves what is stored under the course's sections key: the same
\* snapshot, or none as before
C33_CommandKeepsSnapshot ==
    CommandStep
    => \A c \in DOMAIN subscriptions' : \A course \in Courses :
          LET key == course \o ":sections"
              before == IF c \in DOMAIN subscriptions
                        THEN subscriptions[c].previous_data ELSE << >>
              after == subscriptions'[c].previous_data
          IN  SectionsHas(subscriptions'[c].sections, course)
              => /\ (key \in DOMAIN after) <=> (key \in DOMAIN before)
                 /\ key \in DOMAIN after => after[key] = before[key]

\* the step in which the cycle begins an item reads the snapshot stored
\* under the item's data key, or the empty list when there is none
C33_ItemReadsStored ==
    \A j \in Slots :
        (/\ jobs[j].pc = "loop"
         /\ jobs'[j].pc \in {"fetch", "send", "return"}
         /\ jobs'[j].idx = jobs[j].idx)
        => LET info == jobs[j].items[jobs[j].idx]
           IN  jobs'[j].previous_sections =
                  PreviousGet(subscriptions[info.chat_id].previous_data,
                              get_data_key(info))

\* behind a successful fetch of an item of class numbers from the unchanged
\* portal, the sections reported as added are those of the tracked numbers
\* the portal has and the snapshot read lacks, the sections reported as
\* removed those of the snapshot whose number is no longer tracked, and
\* send_long_message is called exactly when the diff is not empty
C33_DiffAgainstStored ==
    \A j \in Slots :
        DiffedSpecific(jobs[j])
        => LET job == jobs[j]
               info == job.items[job.idx]
               changes == diff_courses(job.previous_sections,
                                       job.current_sections)
               tracked == Range(info.class_numbers)
                             \cap Numbers(Upstream(info.course))
           IN  /\ Numbers(changes.added)
                     = tracked \ Numbers(job.previous_sections)
               /\ Numbers(changes.removed)
                     = Numbers(job.previous_sections) \ tracked
               /\ Notified(job) <=> AnyChanges(changes)

\* C33 amended: /addcourse COURSE:N and /removecourse COURSE:N, when the
\* course keeps tracked class numbers, leave the snapshot stored under
\* "course:sections" untouched, and the next cycle diffs against it: with
\* the upstream data unchanged it reports section N as added only when the
\* portal has a section N that the stored snapshot lacks, as removed only
\* when the stored snapshot holds section N, and it sends a notification
\* exactly when that diff is not empty.
C33_ChangedSetDiffedAgainstStored ==
    /\ []C33_DiffAgainstStored
    /\ [][C33_CommandKeepsSnapshot /\ C33_ItemReadsStored]_vars

\* the cycle triggered after /addcourse A:2 beside the tracked number 1 found
\* the snapshot stored for number 1 alone, fetched the unchanged data and is
\* sending the notification that reports section 2 as added
C33_Witness ==
    \E j \in Slots :
        /\ DiffedSpecific(jobs[j])
        /\ AfterAddedNumber(jobs[j])
        /\ handler.class_number = 2
        /\ jobs[j].had_previous
        /\ jobs[j].items[jobs[j].idx].class_numbers = << 1, 2 >>
        /\ jobs[j].previous_sections = FilterSections(Upstream("A"), << 1 >>)
        /\ Numbers(diff_courses(jobs[j].previous_sections,
                                jobs[j].current_sections).added) = {2}
        /\ jobs[j].pc = "send"

====
